---- MODULE Spec2Model ----
(***************************************************************************)
(* Model of the trading core of smart-currency-selector: the trade store   *)
(* (table trades, token_blacklist), BuyService.execute_buy as called from  *)
(* the analyzer's auto-buy path and from the TradeMonitor suggestion path, *)
(* SellService (exit evaluation and execute_sell), the swap executor       *)
(* SolanaTrader and the wallet-sync tools.                                 *)
(*                                                                         *)
(* Time is counted in whole hours. Prices are integers (price units);      *)
(* a percentage comparison  pct >= k  on  pct = (cur - buy) / buy * 100    *)
(* is evaluated exactly as  (cur - buy) * 100 >= k * buy  (buy > 0).       *)
(***************************************************************************)
EXTENDS Integers, Sequences, FiniteSets, TLC

\* ------------------------------------------------------------------ bounds
MaxTrades == 2
MaxTx == 2
MaxNow == 25
StartHour == 1
MaxSugg == 2
MaxHeld == 25
MaxPrice == 32

\* ------------------------------------------------------- program constants
\* SQL NULL of a column that an INSERT / UPDATE leaves out.
NULL == -999
\* sell_transaction_hash written by WalletSync.close_position_as_manual_sync
MANUAL_SYNC == -2
\* buy_transaction_hash written by SimpleWalletSync.sync_positions
WALLET_IMPORT == -3
CooldownHours == 2
TimeoutHours == 24
mega_profit_threshold == 50
BlacklistLossPct == 10
DefaultProfitTarget == 20
DefaultStopLoss == 10
MinScoreAutoBuy == 80
DailyTradeCap == 3
ProfitCooldownHours == 2
\* tokens received by one buy of max_amount_sol, in wallet units
Lot == 200
\* sell_amount = real_balance * 0.995, as the fraction SellNum / SellDen
SellNum == 995
SellDen == 1000

\* known_tokens of get_wallet_tokens_alternative: the tokens the wallet can hold
Tokens == {"T1", "T2"}
\* the tokens the analyzer's candidate feed offers
Candidates == {"T1"}
\* values DEXToolsService.get_token_price can yield through
\* _get_current_token_price: NULL (None: fetch failed) or a price, 0 included
PriceFeed == {NULL, 0, 8, 10}
PositivePrices == {p \in PriceFeed : p > 0}
\* price_usd carried by the candidate / suggestion snapshot
SnapshotPrices == {0, 10}
Callers == {"analyzer", "monitor"}
SellOutcomes == {"confirmed", "unconfirmed", "failed"}
\* analysis scores of approved tokens
Scores == {79, 80}
\* the monitor's sleep, and idle stretches, counted in steps of half a day
TickHours == {12}

VARIABLES
    trades,        \* table trades: sequence of rows, id = index
    blacklist,     \* table token_blacklist: set of token addresses
    suggested,     \* table suggested_tokens: per token the id of its latest recent
                   \* suggestion with analysis_score >= 80 (0: none)
    wallet,        \* on-chain token balance of the trading wallet, per token
    chain,         \* status of every submitted transaction signature
    observed,      \* signatures whose confirmation the code observed without error
    notifications, \* Telegram notifications sent: [buy, sell] counts
    buyer,         \* per caller: the execute_buy call in progress
    mpc,           \* TradeMonitor loop position
    new_suggestions, \* monitor: suggestions of this cycle still to process
    trades_to_sell,  \* monitor: trade_info entries of this cycle still to sell
    now,           \* wall clock, hours
    config,        \* SellService.config: profit_target_percentage, stop_loss_percentage
    log,           \* kinds of error lines the buy path has logged so far
    ex,            \* one exit evaluation: its inputs and its result
    trader,        \* one SolanaTrader call (buy_token or sell_tokens) in progress
    analysis,      \* one TokenAnalyzer._analyze_token run: its inputs and its outcome
    scheduler,     \* TokenAnalyzer: analysis_results, rejected_tokens and its cycles
    loops,         \* the background threads: stop flags, positions, sleeps
    dextools       \* the DEXTools client instances and the requests they sent

vars == <<trades, blacklist, suggested, wallet, chain, observed, notifications, buyer, mpc,
          new_suggestions, trades_to_sell, now, config, log, ex, trader, analysis, scheduler, loops, dextools>>

IdleBuyer == [pc |-> "idle", token |-> "T1", sid |-> NULL, price |-> 0, hash |-> NULL]

\* configurations _load_config can produce (the defaults are 20 and 10)
Configs == {[auto_trading_enabled |-> TRUE, profit_target |-> DefaultProfitTarget,
             stop_loss |-> DefaultStopLoss],
            [auto_trading_enabled |-> FALSE, profit_target |-> DefaultProfitTarget,
             stop_loss |-> DefaultStopLoss]}

\* no SolanaTrader call in progress; no analysis in progress
NoCall == [pc |-> "off"]
NoAnalysis == [pc |-> "off"]
\* the scheduler, the background threads and the DEXTools clients left out
NoScheduler == [pc |-> "off"]
NoLoops == [pc |-> "off"]
NoClients == [pc |-> "off"]

NoEval == [pc |-> "off", held |-> 0, buy_price |-> 1, price |-> NULL,
           reason |-> "None", current_price |-> NULL]

Init ==
    /\ trades = << >>
    /\ blacklist = {}
    /\ suggested = [t \in Tokens |-> 0]
    /\ wallet = [t \in Tokens |-> 0]
    /\ chain = << >>
    /\ observed = {}
    /\ notifications = [buy |-> 0, sell |-> 0]
    /\ buyer = [c \in Callers |-> IdleBuyer]
    /\ mpc = "sleep"
    /\ new_suggestions = << >>
    /\ trades_to_sell = << >>
    /\ now = StartHour
    /\ config \in Configs
    /\ log = {}
    /\ ex = NoEval
    /\ trader = NoCall
    /\ scheduler = NoScheduler /\ loops = NoLoops /\ dextools = NoClients
    /\ analysis = NoAnalysis

\* ------------------------------------------------------------- store reads
TradeIds == 1..Len(trades)
OpenIds == {i \in TradeIds : trades[i].status = "OPEN"}
OpenCount(t) == Cardinality({i \in OpenIds : trades[i].token_address = t})

\* ------------------------------------------------------- exit evaluation
\* Python truthiness of an Optional[float]: None and 0.0 are falsy
Truthy(price) == price # NULL /\ price # 0

\* price_change_pct >= k and <= k, for price_change_pct = (cur - buy) / buy * 100
PctGE(cur, buy, k) == (cur - buy) * 100 >= k * buy
PctLE(cur, buy, k) == (cur - buy) * 100 <= k * buy

in_cooldown(held) == held < CooldownHours
is_24h_old(held) == held >= TimeoutHours

should_sell_ignoring_cooldown(cur, buy, cooldown, cfg) ==
    IF PctGE(cur, buy, mega_profit_threshold) THEN "MEGA_PROFIT"
    ELSE IF PctGE(cur, buy, cfg.profit_target) THEN "PROFIT_TARGET"
    ELSE IF PctLE(cur, buy, 0 - cfg.stop_loss) THEN "STOP_LOSS"
    ELSE "None"

should_sell(cur, buy, cooldown, cfg) ==
    IF PctGE(cur, buy, mega_profit_threshold) THEN "MEGA_PROFIT"
    ELSE IF cooldown THEN "None"
    ELSE IF PctGE(cur, buy, cfg.profit_target) THEN "PROFIT_TARGET"
    ELSE IF PctLE(cur, buy, 0 - cfg.stop_loss) THEN "STOP_LOSS"
    ELSE "None"

EvaluateExit_price_first(held, buy_price, price, cfg) ==
    IF Truthy(price)
    THEN [reason |-> should_sell(price, buy_price, in_cooldown(held), cfg),
          current_price |-> price]
    ELSE IF is_24h_old(held)
         THEN [reason |-> "TIMEOUT_24H", current_price |-> buy_price]
         ELSE [reason |-> "None", current_price |-> price]

\* the body of the loop of check_open_trades_for_sell for one OPEN trade:
\* the sell_reason ("None": the trade is not appended to trades_to_sell)
\* and the current_price handed to execute_sell
EvaluateExit(held, buy_price, price, cfg) ==
    IF is_24h_old(held)
    THEN [reason |-> "TIMEOUT_24H",
          current_price |-> IF Truthy(price) THEN price ELSE buy_price]
    ELSE IF Truthy(price)
         THEN [reason |-> should_sell(price, buy_price, in_cooldown(held), cfg),
               current_price |-> price]
         ELSE [reason |-> "None", current_price |-> price]

\* ------------------------------------------------------------ BuyService
Max(S) == CHOOSE x \in S : \A y \in S : y <= x

\* the row INSERTed by _record_buy_transaction: status OPEN, the sell columns NULL
NewTrade(token, price, amount, hash, sid) ==
    [token_address |-> token, status |-> "OPEN", buy_price |-> price,
     buy_amount |-> amount, buy_time |-> now, buy_transaction_hash |-> hash,
     suggestion_id |-> sid, recent |-> TRUE,
     sell_price |-> NULL, sell_time |-> NULL, sell_transaction_hash |-> NULL,
     sell_reason |-> "NULL", profit_loss_percentage |-> NULL]

\* the suggestion_id guard at the head of execute_buy
SuggestionIdUsed(sid) ==
    sid # NULL /\ \E i \in TradeIds : trades[i].suggestion_id = sid

\* should_buy_token without the token_blacklist lookup
should_buy_token_no_blacklist(t) ==
    /\ config.auto_trading_enabled
    /\ OpenCount(t) = 0
    /\ ~\E i \in TradeIds : trades[i].token_address = t /\ trades[i].recent

\* should_buy_token without the auto_trading_enabled test
should_buy_token_no_config(t) ==
    /\ t \notin blacklist
    /\ OpenCount(t) = 0
    /\ ~\E i \in TradeIds : trades[i].token_address = t /\ trades[i].recent

should_buy_token(t) ==
    /\ config.auto_trading_enabled
    /\ t \notin blacklist
    /\ OpenCount(t) = 0
    /\ ~\E i \in TradeIds : trades[i].token_address = t /\ trades[i].recent

\* execute_buy up to and including should_buy_token
\* (guard_ok: the SELECT of the suggestion_id guard answered; when it raises,
\* the except branch logs the error and execution continues)
ExecuteBuyBegin(c, t, sid, guard_ok) ==
    IF (guard_ok /\ SuggestionIdUsed(sid)) \/ ~should_buy_token(t)
    THEN buyer' = buyer
    ELSE buyer' = [buyer EXCEPT ![c] = [pc |-> "admitted", token |-> t, sid |-> sid,
                                        price |-> 0, hash |-> NULL]]

\* TokenAnalyzer._approve_token with score >= 80 and the suggestion saved:
\* a suggested_tokens row is inserted, then buy_service.execute_buy(buy_token_data)
\* is called without a suggestion_id
NextSuggestionId ==
    1 + Max({0} \cup {suggested[t] : t \in Tokens}
                \cup {trades[i].suggestion_id : i \in TradeIds})

ApproveToken(t, score) ==
    /\ buyer["analyzer"].pc = "idle"
    /\ NextSuggestionId <= MaxSugg
    /\ IF score >= MinScoreAutoBuy
       THEN /\ suggested' = [suggested EXCEPT ![t] = NextSuggestionId]
            /\ ExecuteBuyBegin("analyzer", t, NULL, TRUE)
       ELSE UNCHANGED <<suggested, buyer>>
    /\ UNCHANGED <<trades, blacklist, wallet, chain, observed, notifications, mpc,
                   new_suggestions, trades_to_sell, now, config, log, ex, trader, analysis, scheduler, loops, dextools>>

\* the loop body of TradeMonitor._check_new_suggestions for the next suggestion
MonitorBuy(guard_ok) ==
    /\ mpc = "buying"
    /\ buyer["monitor"].pc = "idle"
    /\ new_suggestions # << >>
    /\ LET s == Head(new_suggestions)
       IN ExecuteBuyBegin("monitor", s.token_address, s.suggestion_id, guard_ok)
    /\ new_suggestions' = Tail(new_suggestions)
    /\ UNCHANGED <<trades, blacklist, suggested, wallet, chain, observed, notifications,
                   mpc, trades_to_sell, now, config, log, ex, trader, analysis, scheduler, loops, dextools>>

\* What SolanaTrader.buy_token returns: the signature send_raw_transaction answered
\* with (sig), or None when nothing was sent. It returns right after the send and
\* a fixed sleep: it asks for no confirmation.
buy_token_simulated(submitted, sig) == sig

buy_token(submitted, sig) == IF submitted THEN sig ELSE NULL

\* execute_buy: the market price fetch, the price gate, then SolanaTrader.buy_token.
\* fetched is the answer of _get_current_token_price; snap is the price_usd of the
\* token_data the caller passed (read here for the first time, as the fallback);
\* submitted says whether the swap transaction was sent.
BuySwap(c, fetched, snap, submitted) ==
    /\ buyer[c].pc = "admitted"
    /\ LET current_price == IF fetched = NULL \/ fetched <= 0 THEN snap ELSE fetched
           buy_result == buy_token(submitted, Len(chain) + 1)
       IN IF current_price <= 0
          THEN /\ buyer' = [buyer EXCEPT ![c] = IdleBuyer]
               /\ UNCHANGED <<chain, log>>
          ELSE /\ submitted => Len(chain) < MaxTx
               /\ chain' = IF submitted
                           THEN Append(chain, [status |-> "pending", kind |-> "buy",
                                               token |-> buyer[c].token, amount |-> Lot])
                           ELSE chain
               /\ IF buy_result = NULL
                  THEN /\ buyer' = [buyer EXCEPT ![c] = IdleBuyer]
                       /\ log' = log \cup {"buy_swap_failed"}
                  ELSE /\ buyer' = [buyer EXCEPT ![c].pc = "swapped",
                                                 ![c].price = current_price,
                                                 ![c].hash = buy_result]
                       /\ log' = log
    /\ UNCHANGED <<trades, blacklist, suggested, wallet, observed, notifications, mpc,
                   new_suggestions, trades_to_sell, now, config, ex, trader, analysis, scheduler, loops, dextools>>

\* execute_buy after buy_token returned a result: the balance reconciliation,
\* _record_buy_transaction (db_ok: the INSERT did not raise) and the notification
ReconciledAmount(real_balance, token_amount) ==
    IF real_balance > 0 /\
       (IF real_balance >= token_amount THEN real_balance - token_amount
        ELSE token_amount - real_balance) * 10 > token_amount
    THEN real_balance ELSE token_amount

BuyRecord(c, db_ok) ==
    /\ buyer[c].pc = "swapped"
    /\ Len(trades) < MaxTrades
    /\ LET b == buyer[c]
           token_amount == ReconciledAmount(wallet[b.token], Lot)
       IN IF db_ok
          THEN /\ trades' = Append(trades, NewTrade(b.token, b.price, token_amount,
                                                    b.hash, b.sid))
               /\ notifications' = [notifications EXCEPT !.buy = @ + 1]
          ELSE /\ UNCHANGED <<trades, notifications>>
    /\ buyer' = [buyer EXCEPT ![c] = IdleBuyer]
    /\ UNCHANGED <<blacklist, suggested, wallet, chain, observed, mpc, new_suggestions,
                   trades_to_sell, now, config, log, ex, trader, analysis, scheduler, loops, dextools>>

\* ----------------------------------------------------------- TradeMonitor
TokenOrder == <<"T1", "T2">>

TradesToday(t) ==
    Cardinality({i \in TradeIds : trades[i].token_address = t
                                  /\ trades[i].buy_time > (now \div 24) * 24})

\* the WHERE clause of the suggestion query of _check_new_suggestions
SuggestionEligible(t) ==
    /\ suggested[t] > 0
    /\ OpenCount(t) = 0
    /\ ~\E i \in TradeIds : trades[i].token_address = t /\ trades[i].recent
    /\ ~\E i \in TradeIds : /\ trades[i].token_address = t
                            /\ trades[i].status = "CLOSED"
                            /\ trades[i].profit_loss_percentage > 0
                            /\ trades[i].sell_time > now - ProfitCooldownHours
    /\ TradesToday(t) < DailyTradeCap

\* _monitor_loop starts a cycle: the suggestion query of _check_new_suggestions
CheckNewSuggestions ==
    /\ mpc = "sleep"
    /\ config.auto_trading_enabled
    /\ LET picked == SelectSeq(TokenOrder, SuggestionEligible)
       IN new_suggestions' = [k \in 1..Len(picked) |->
                                 [token_address |-> picked[k],
                                  suggestion_id |-> suggested[picked[k]]]]
    /\ mpc' = "buying"
    /\ UNCHANGED <<trades, blacklist, suggested, wallet, chain, observed, notifications,
                   buyer, trades_to_sell, now, config, log, ex, trader, analysis, scheduler, loops, dextools>>

\* ------------------------------------------------------------ SellService
\* check_open_trades_for_sell: every OPEN trade is evaluated against the price the
\* feed answers for it; prices[i] is that answer for trade i
CheckOpenTrades(prices) ==
    /\ mpc = "buying"
    /\ new_suggestions = << >>
    /\ buyer["monitor"].pc = "idle"
    /\ LET Eval(i) == EvaluateExit(now - trades[i].buy_time, trades[i].buy_price,
                                   prices[i], config)
           ToSell(i) == i \in OpenIds /\ Eval(i).reason # "None"
           picked == SelectSeq([i \in 1..Len(trades) |-> i], ToSell)
       IN /\ trades_to_sell' = [k \in 1..Len(picked) |->
                                  [id |-> picked[k],
                                   token_address |-> trades[picked[k]].token_address,
                                   buy_price |-> trades[picked[k]].buy_price,
                                   buy_amount |-> trades[picked[k]].buy_amount,
                                   current_price |-> Eval(picked[k]).current_price,
                                   sell_reason |-> Eval(picked[k]).reason]]
          /\ mpc' = IF picked = << >> THEN "sleep" ELSE "selling"
    /\ UNCHANGED <<trades, blacklist, suggested, wallet, chain, observed, notifications,
                   buyer, new_suggestions, now, config, log, ex, trader, analysis, scheduler, loops, dextools>>

\* profit_loss_pct of execute_sell as the fraction num / den (den > 0):
\* on the proportional cost when sell_amount < buy_amount, else on the full buy total;
\* sell_amount = real_balance * SellNum / SellDen
ProfitLossNum(info, real_balance) ==
    IF real_balance * SellNum < info.buy_amount * SellDen
    THEN (info.current_price - info.buy_price) * 100
    ELSE (info.current_price * real_balance * SellNum
          - info.buy_price * info.buy_amount * SellDen) * 100

ProfitLossDen(info, real_balance) ==
    IF real_balance * SellNum < info.buy_amount * SellDen
    THEN info.buy_price
    ELSE info.buy_price * info.buy_amount * SellDen

\* the value stored in profit_loss_percentage, in whole percent, rounded down
StoredPct(num, den) == num \div den

\* the UPDATE of _record_sell_transaction
ClosedRow(row, sell_price, hash, sell_reason, pct) ==
    [row EXCEPT !.status = "CLOSED", !.sell_price = sell_price, !.sell_time = now,
                !.sell_transaction_hash = hash, !.sell_reason = sell_reason,
                !.profit_loss_percentage = pct]

\* What _execute_real_sell_transaction returns for an outcome of
\* SolanaTrader.sell_tokens:
\*   "confirmed"   a transaction was sent and confirm_transaction reported no error:
\*                 its signature (sig) is returned;
\*   "unconfirmed" a transaction was sent but confirm_transaction raised or reported
\*                 an error: None, and the transaction is left to the chain;
\*   "failed"      nothing was sent (no quote, simulation error, send refused): None.
execute_real_sell_transaction_fallback(outcome, sig) == sig

execute_real_sell_transaction(outcome, sig) ==
    IF outcome = "confirmed" THEN sig ELSE NULL

\* execute_sell for the next entry of trades_to_sell.
\* db_ok: the UPDATE of _record_sell_transaction did not raise.
ExecuteSell(outcome, db_ok) ==
    /\ mpc = "selling"
    /\ trades_to_sell # << >>
    /\ LET info == Head(trades_to_sell)
           t == info.token_address
           real_balance == wallet[t]
           num == ProfitLossNum(info, real_balance)
           den == ProfitLossDen(info, real_balance)
           sold == (real_balance * SellNum) \div SellDen
           transaction_hash == execute_real_sell_transaction(outcome, Len(chain) + 1)
       IN IF real_balance <= 0
          THEN UNCHANGED <<trades, blacklist, wallet, chain, observed, notifications>>
          ELSE /\ outcome # "failed" => Len(chain) < MaxTx
               /\ chain' = IF outcome = "failed" THEN chain
                           ELSE Append(chain,
                                  [status |-> IF outcome = "confirmed" THEN "confirmed"
                                              ELSE "pending",
                                   kind |-> "sell", token |-> t, amount |-> sold])
               /\ observed' = IF outcome = "confirmed"
                              THEN observed \cup {Len(chain) + 1} ELSE observed
               /\ wallet' = IF outcome = "confirmed"
                            THEN [wallet EXCEPT ![t] = real_balance - sold] ELSE wallet
               /\ IF transaction_hash # NULL /\ db_ok
                  THEN /\ trades' = [trades EXCEPT ![info.id] =
                                       ClosedRow(@, info.current_price, transaction_hash,
                                                 info.sell_reason, StoredPct(num, den))]
                       /\ blacklist' = IF info.sell_reason = "STOP_LOSS"
                                          /\ num <= (0 - BlacklistLossPct) * den
                                       THEN blacklist \cup {t} ELSE blacklist
                       /\ notifications' = [notifications EXCEPT !.sell = @ + 1]
                  ELSE UNCHANGED <<trades, blacklist, notifications>>
    /\ trades_to_sell' = Tail(trades_to_sell)
    /\ mpc' = IF Tail(trades_to_sell) = << >> THEN "sleep" ELSE "selling"
    /\ UNCHANGED <<suggested, buyer, new_suggestions, now, config, log, ex,
                   trader, analysis, scheduler, loops, dextools>>

\* ------------------------------------------------------------ wallet sync
\* sync_wallet_simple.py, sync_positions. valued: the tokens get_wallet_tokens_alternative
\* lists (balance > 0 and value >= min_value_usd); price: the price it read for them
SyncSimple(valued, price) ==
    /\ valued # {}
    /\ \A t \in valued : wallet[t] > 0
    /\ LET db_positions == OpenIds
           db_tokens_set == {trades[i].token_address : i \in db_positions}
           new_tokens == SelectSeq(TokenOrder,
                                   LAMBDA t : t \in valued /\ t \notin db_tokens_set)
           imports == [k \in 1..Len(new_tokens) |->
                         NewTrade(new_tokens[k], price, wallet[new_tokens[k]],
                                  WALLET_IMPORT, NULL)]
           closed == [i \in TradeIds |->
                        IF i \in db_positions /\ trades[i].token_address \notin valued
                        THEN [trades[i] EXCEPT !.status = "CLOSED", !.sell_time = now,
                                               !.sell_reason = "SYNC_NOT_IN_WALLET"]
                        ELSE trades[i]]
       IN /\ Len(trades) + Len(new_tokens) <= MaxTrades
          /\ trades' = closed \o imports
    /\ UNCHANGED <<blacklist, suggested, wallet, chain, observed, notifications, buyer,
                   mpc, new_suggestions, trades_to_sell, now, config, log, ex,
                   trader, analysis, scheduler, loops, dextools>>

\* sync_wallet_positions.py, WalletSync.close_position_as_manual_sync
ManualSyncRow(row, reason) ==
    [row EXCEPT !.status = "CLOSED", !.sell_price = 0, !.sell_time = now,
                !.sell_transaction_hash = MANUAL_SYNC, !.sell_reason = reason,
                !.profit_loss_percentage = 0]

\* sync_wallet_positions.py, WalletSync.sync_positions. valued: the tokens whose
\* balance is worth at least min_value_usd at the price read
SyncPositions(valued) ==
    /\ OpenIds # {}
    /\ \A t \in valued : wallet[t] > 0
    /\ trades' = [i \in TradeIds |->
                    IF i \notin OpenIds THEN trades[i]
                    ELSE IF wallet[trades[i].token_address] <= 0
                    THEN ManualSyncRow(trades[i], "MANUAL_ZERO_BALANCE")
                    ELSE IF trades[i].token_address \notin valued
                    THEN ManualSyncRow(trades[i], "MANUAL_LOW_VALUE")
                    ELSE trades[i]]
    /\ UNCHANGED <<blacklist, suggested, wallet, chain, observed, notifications, buyer,
                   mpc, new_suggestions, trades_to_sell, now, config, log, ex,
                   trader, analysis, scheduler, loops, dextools>>

\* ------------------------------------------------------------ environment
\* the chain settles a transaction that was sent and not yet settled
ChainResolve(sig, ok) ==
    /\ sig \in 1..Len(chain)
    /\ chain[sig].status = "pending"
    /\ chain' = [chain EXCEPT ![sig].status = IF ok THEN "confirmed" ELSE "failed"]
    /\ wallet' = IF ~ok THEN wallet
                 ELSE IF chain[sig].kind = "buy"
                 THEN [wallet EXCEPT ![chain[sig].token] = @ + chain[sig].amount]
                 ELSE [wallet EXCEPT ![chain[sig].token] =
                          IF @ >= chain[sig].amount THEN @ - chain[sig].amount ELSE @]
    /\ UNCHANGED <<trades, blacklist, suggested, observed, notifications, buyer, mpc,
                   new_suggestions, trades_to_sell, now, config, log, ex, trader, analysis, scheduler, loops, dextools>>

\* the operator moves a token out of the wallet by hand
ManualTransfer(t) ==
    /\ wallet[t] > 0
    /\ wallet' = [wallet EXCEPT ![t] = 0]
    /\ UNCHANGED <<trades, blacklist, suggested, chain, observed, notifications, buyer,
                   mpc, new_suggestions, trades_to_sell, now, config, log, ex,
                   trader, analysis, scheduler, loops, dextools>>

\* the operator buys a token by hand
ManualDeposit(t) ==
    /\ wallet[t] = 0
    /\ wallet' = [wallet EXCEPT ![t] = Lot]
    /\ UNCHANGED <<trades, blacklist, suggested, chain, observed, notifications, buyer,
                   mpc, new_suggestions, trades_to_sell, now, config, log, ex,
                   trader, analysis, scheduler, loops, dextools>>

\* the 30-second / 2-minute windows after a buy run out
RecentWindowPasses ==
    /\ \E i \in TradeIds : trades[i].recent
    /\ trades' = [i \in TradeIds |-> [trades[i] EXCEPT !.recent = FALSE]]
    /\ UNCHANGED <<blacklist, suggested, wallet, chain, observed, notifications, buyer,
                   mpc, new_suggestions, trades_to_sell, now, config, log, ex,
                   trader, analysis, scheduler, loops, dextools>>

\* hours pass while the monitor sleeps and no purchase is in progress;
\* suggestions older than one hour drop out of the monitor's query
Tick(dt) ==
    /\ mpc = "sleep"
    /\ \A c \in Callers : buyer[c].pc = "idle"
    /\ now + dt <= MaxNow
    /\ now' = now + dt
    /\ trades' = [i \in TradeIds |-> [trades[i] EXCEPT !.recent = FALSE]]
    /\ suggested' = [t \in Tokens |-> 0]
    /\ UNCHANGED <<blacklist, wallet, chain, observed, notifications, buyer, mpc,
                   new_suggestions, trades_to_sell, config, log, ex, trader, analysis, scheduler, loops, dextools>>

\* The trading processes (analyzer auto-buy, TradeMonitor cycle) under every answer
\* of the price feed, the swap executor, the chain and the database.
Next ==
    \/ \E t \in Candidates, score \in Scores : ApproveToken(t, score)
    \/ CheckNewSuggestions
    \/ \E guard_ok \in BOOLEAN : MonitorBuy(guard_ok)
    \/ \E c \in Callers, fetched \in PriceFeed, snap \in SnapshotPrices,
          submitted \in BOOLEAN : BuySwap(c, fetched, snap, submitted)
    \/ \E c \in Callers, db_ok \in BOOLEAN : BuyRecord(c, db_ok)
    \/ \E prices \in [OpenIds -> PriceFeed] : CheckOpenTrades(prices)
    \/ \E outcome \in SellOutcomes, db_ok \in BOOLEAN : ExecuteSell(outcome, db_ok)
    \/ \E sig \in 1..MaxTx, ok \in BOOLEAN : ChainResolve(sig, ok)
    \/ RecentWindowPasses
    \/ \E dt \in TickHours : Tick(dt)

Spec == Init /\ [][Next]_vars

\* Both wallet-sync scripts and the operator's own purchases and withdrawals next to
\* the trading processes, with a database that answers and a feed that quotes
\* SyncPrices.
SyncPrices == {8, 10}

NextSync ==
    \/ \E t \in Candidates : ApproveToken(t, MinScoreAutoBuy)
    \/ CheckNewSuggestions
    \/ MonitorBuy(TRUE)
    \/ \E c \in Callers : BuySwap(c, Max(SyncPrices), Max(SyncPrices), TRUE)
    \/ \E c \in Callers : BuyRecord(c, TRUE)
    \/ \E prices \in [OpenIds -> SyncPrices] : CheckOpenTrades(prices)
    \/ \E outcome \in {"confirmed", "failed"} : ExecuteSell(outcome, TRUE)
    \/ \E valued \in SUBSET Tokens : SyncSimple(valued, Max(SyncPrices))
    \/ \E valued \in SUBSET Tokens : SyncPositions(valued)
    \/ \E sig \in 1..MaxTx : ChainResolve(sig, TRUE)
    \/ \E t \in Tokens : ManualTransfer(t)
    \/ \E t \in Tokens : ManualDeposit(t)
    \/ RecentWindowPasses
    \/ \E dt \in TickHours : Tick(dt)

SpecSync == Init /\ [][NextSync]_vars

\* The trading processes together with wallet imports of a token that arrived
\* from outside (sync_wallet_simple.py): trades of a second token interleave
\* with the candidate's
NextPair ==
    \/ \E t \in Candidates : ApproveToken(t, MinScoreAutoBuy)
    \/ CheckNewSuggestions
    \/ MonitorBuy(TRUE)
    \/ \E c \in Callers : BuySwap(c, Max(SyncPrices), Max(SyncPrices), TRUE)
    \/ \E c \in Callers : BuyRecord(c, TRUE)
    \/ \E prices \in [OpenIds -> SyncPrices] : CheckOpenTrades(prices)
    \/ ExecuteSell("confirmed", TRUE)
    \/ \E valued \in SUBSET Tokens : SyncSimple(valued, Max(SyncPrices))
    \/ \E sig \in 1..MaxTx : ChainResolve(sig, TRUE)
    \/ \E t \in Tokens \ Candidates : ManualDeposit(t)
    \/ RecentWindowPasses
    \/ \E dt \in TickHours : Tick(dt)

SpecPair == Init /\ [][NextPair]_vars

\* ------------------------------------------------- properties of the trade store
SellFieldsNull(row) ==
    /\ row.sell_price = NULL
    /\ row.sell_time = NULL
    /\ row.sell_transaction_hash = NULL
    /\ row.sell_reason = "NULL"
    /\ row.profit_loss_percentage = NULL

\* C1: in every reachable state a Trade is CLOSED if and only if both its sell_time
\* and its sell_price are non-null, and an OPEN Trade has all sell fields null.
\* (Fails: sync_wallet_simple closes a position with sell_time only.)
C1_ClosedIffSellFields ==
    \A i \in TradeIds :
        /\ trades[i].status = "CLOSED"
              <=> (trades[i].sell_time # NULL /\ trades[i].sell_price # NULL)
        /\ trades[i].status = "OPEN" => SellFieldsNull(trades[i])

\* C2: for every token address at most one Trade is OPEN, in every interleaving of
\* the analyzer's auto-buy and the monitor's suggestion buy.
\* (Fails: both callers pass should_buy_token before either inserts.)
C2_OneOpenPerToken == \A t \in Tokens : OpenCount(t) <= 1

\* C3: when execute_sell ends without a confirmed sell signature (the swap executor
\* reported failure), the trades table, the blacklist and the notifications are
\* exactly what they were: the Trade stays OPEN with its sell fields untouched.
C3_FailedSellLeavesTrade ==
    [][(mpc = "selling" /\ trades_to_sell # << >>
        /\ trades_to_sell' = Tail(trades_to_sell) /\ observed' = observed)
       => (trades' = trades /\ blacklist' = blacklist /\ notifications' = notifications)]_vars

\* a sell transaction went out, its confirmation was not observed, and the Trade of
\* that token is still OPEN with every sell field null
C3_Witness ==
    \E sig \in 1..Len(chain) :
        /\ chain[sig].kind = "sell"
        /\ sig \notin observed
        /\ \E i \in OpenIds : /\ trades[i].token_address = chain[sig].token
                              /\ SellFieldsNull(trades[i])

\* C4: every sell transaction hash stored in a Trade is a signature whose confirmation
\* was observed without error, and no Trade is CLOSED without one.
\* (Fails: the manual sync closes with the placeholder MANUAL_SYNC.)
C4_SellHashConfirmed ==
    \A i \in TradeIds :
        /\ trades[i].sell_transaction_hash # NULL
              => trades[i].sell_transaction_hash \in observed
        /\ trades[i].status = "CLOSED" => trades[i].sell_transaction_hash \in observed

\* C5: a Trade inserted by execute_buy exists only once the confirmation of its buy
\* transaction hash has been observed.
\* (Fails: buy_token returns after the send; nothing on the buy path confirms.)
C5_OpenOnlyAfterConfirmation ==
    \A i \in TradeIds :
        trades[i].buy_transaction_hash # WALLET_IMPORT
            => trades[i].buy_transaction_hash \in observed

\* C6: when execute_buy leaves the swap step without a transaction having been sent,
\* the call is over (it returned None): no Trade row was inserted and no buy
\* notification sent.
C6_FailedSwapNoTrade ==
    [][\A c \in Callers :
          (buyer[c].pc = "admitted" /\ buyer'[c].pc # "admitted" /\ chain' = chain)
          => (buyer'[c].pc = "idle" /\ trades' = trades
              /\ notifications' = notifications)]_vars

\* buy_token failed, every execute_buy call has returned, and there is neither a
\* Trade nor a buy notification
C6_Witness ==
    /\ "buy_swap_failed" \in log
    /\ \A c \in Callers : buyer[c].pc = "idle"
    /\ trades = << >>
    /\ notifications.buy = 0

\* ---------------------------------------------- exit evaluation, on its own
\* One OPEN trade (hours held, buy_price > 0), one answer of the price feed and
\* one configuration, drawn from the bounded sets; ExitEvaluate applies
\* the evaluation of check_open_trades_for_sell to it.
ExitBuyPrices == {10, 16}
ExitPrices == {NULL} \cup 0..MaxPrice
ExitConfigs == [auto_trading_enabled : {TRUE},
                profit_target : {10, DefaultProfitTarget, 60},
                stop_loss : {5, DefaultStopLoss, 50}]

InitExit ==
    /\ trades = << >>
    /\ blacklist = {}
    /\ suggested = [t \in Tokens |-> 0]
    /\ wallet = [t \in Tokens |-> 0]
    /\ chain = << >>
    /\ observed = {}
    /\ notifications = [buy |-> 0, sell |-> 0]
    /\ buyer = [c \in Callers |-> IdleBuyer]
    /\ mpc = "sleep"
    /\ new_suggestions = << >>
    /\ trades_to_sell = << >>
    /\ now = StartHour
    /\ config \in ExitConfigs
    /\ log = {}
    /\ ex \in [pc : {"input"}, held : 0..MaxHeld, buy_price : ExitBuyPrices,
               price : ExitPrices, reason : {"None"}, current_price : {NULL}]
    /\ trader = NoCall
    /\ scheduler = NoScheduler /\ loops = NoLoops /\ dextools = NoClients
    /\ analysis = NoAnalysis

ExitEvaluate ==
    /\ ex.pc = "input"
    /\ LET r == EvaluateExit(ex.held, ex.buy_price, ex.price, config)
       IN ex' = [ex EXCEPT !.pc = "done", !.reason = r.reason,
                           !.current_price = r.current_price]
    /\ UNCHANGED <<trades, blacklist, suggested, wallet, chain, observed, notifications,
                   buyer, mpc, new_suggestions, trades_to_sell, now, config, log,
                   trader, analysis, scheduler, loops, dextools>>

NextExit == ExitEvaluate

SpecExit == InitExit /\ [][NextExit]_vars

\* the gain of the evaluated trade, as comparisons on (price - buy_price) / buy_price * 100
ExGainGE(k) == ex.price # NULL /\ (ex.price - ex.buy_price) * 100 >= k * ex.buy_price
ExGainLE(k) == ex.price # NULL /\ (ex.price - ex.buy_price) * 100 <= k * ex.buy_price

\* C7: a trade held less than 2 hours whose gain is below 50% gets no exit reason,
\* whatever the loss, the gain, the profit target and the stop-loss.
C7_CooldownNoExit ==
    (ex.pc = "done" /\ ex.held < 2 /\ ~ExGainGE(50)) => ex.reason = "None"

\* inside the cooldown, a live price at or above the profit target and below 50%
\* was evaluated and gave no exit reason
C7_Witness ==
    /\ ex.pc = "done" /\ ex.held < 2 /\ ex.reason = "None"
    /\ ex.price # NULL /\ ex.price > 0
    /\ ExGainGE(config.profit_target) /\ ~ExGainGE(50)

PriorityReason ==
    IF ex.held >= 24 THEN "TIMEOUT_24H"
    ELSE IF ExGainGE(50) THEN "MEGA_PROFIT"
    ELSE IF ex.held < 2 THEN "None"
    ELSE IF ExGainGE(config.profit_target) THEN "PROFIT_TARGET"
    ELSE IF ExGainLE(0 - config.stop_loss) THEN "STOP_LOSS"
    ELSE "None"

\* C9: the exit reason returned is the one of the highest-priority rule whose
\* condition holds.
C9_PriorityOrder == ex.pc = "done" => ex.reason = PriorityReason

\* C10: held at least 2 and less than 24 hours, a price change at or above the profit
\* target (below 50%) gives PROFIT_TARGET and a price change at or below minus the
\* stop-loss gives STOP_LOSS, for every price the feed reports.
C10_TargetAndStop ==
    (ex.pc = "done" /\ ex.held >= 2 /\ ex.held < 24 /\ ex.price # NULL) =>
        /\ (ExGainGE(config.profit_target) /\ ~ExGainGE(50)) => ex.reason = "PROFIT_TARGET"
        /\ ExGainLE(0 - config.stop_loss) => ex.reason = "STOP_LOSS"

\* ---------------------------------------------------------------------------
\* Token blacklist and purchase admission

\* a call of execute_buy passes should_buy_token in this step
Admitted(c) == buyer[c].pc = "idle" /\ buyer'[c].pc = "admitted"

TightStopLoss == 5
StopPrices == {15, 16}

InitStop ==
    /\ trades = << >>
    /\ blacklist = {}
    /\ suggested = [t \in Tokens |-> 0]
    /\ wallet = [t \in Tokens |-> 0]
    /\ chain = << >>
    /\ observed = {}
    /\ notifications = [buy |-> 0, sell |-> 0]
    /\ buyer = [c \in Callers |-> IdleBuyer]
    /\ mpc = "sleep"
    /\ new_suggestions = << >>
    /\ trades_to_sell = << >>
    /\ now = StartHour
    /\ config = [auto_trading_enabled |-> TRUE, profit_target |-> DefaultProfitTarget,
                 stop_loss |-> TightStopLoss]
    /\ log = {}
    /\ ex = NoEval
    /\ trader = NoCall
    /\ scheduler = NoScheduler /\ loops = NoLoops /\ dextools = NoClients
    /\ analysis = NoAnalysis

NextStop ==
    \/ \E t \in Candidates : ApproveToken(t, MinScoreAutoBuy)
    \/ CheckNewSuggestions
    \/ MonitorBuy(TRUE)
    \/ \E c \in Callers : BuySwap(c, Max(StopPrices), Max(StopPrices), TRUE)
    \/ \E c \in Callers : BuyRecord(c, TRUE)
    \/ \E prices \in [OpenIds -> StopPrices] : CheckOpenTrades(prices)
    \/ \E outcome \in {"confirmed", "failed"} : ExecuteSell(outcome, TRUE)
    \/ \E sig \in 1..MaxTx : ChainResolve(sig, TRUE)
    \/ RecentWindowPasses
    \/ \E dt \in TickHours : Tick(dt)

SpecStop == InitStop /\ [][NextStop]_vars

\* C12: every Trade closed with exit reason STOP_LOSS has a blacklist entry for
\* its token from the moment the close is recorded
C12_StopLossBlacklisted ==
    \A i \in TradeIds :
        (trades[i].status = "CLOSED" /\ trades[i].sell_reason = "STOP_LOSS") =>
            trades[i].token_address \in blacklist

\* ---------------------------------------------------------------------------
\* Daily trade cap. The store starts with up to three rows of T1 created in the
\* current day: positions imported by sync_wallet_simple.py and closed by it
\* again after the tokens left the wallet (neither step submits a transaction)
SyncClosedImport(t) ==
    [NewTrade(t, Max(SyncPrices), Lot, WALLET_IMPORT, NULL)
        EXCEPT !.status = "CLOSED", !.sell_time = StartHour,
               !.sell_reason = "SYNC_NOT_IN_WALLET", !.recent = FALSE]

InitCap ==
    /\ now = StartHour
    /\ \E n \in 0..DailyTradeCap :
          trades = [k \in 1..n |-> SyncClosedImport("T1")]
    /\ blacklist = {}
    /\ suggested = [t \in Tokens |-> 0]
    /\ wallet = [t \in Tokens |-> 0]
    /\ chain = << >>
    /\ observed = {}
    /\ notifications = [buy |-> 0, sell |-> 0]
    /\ buyer = [c \in Callers |-> IdleBuyer]
    /\ mpc = "sleep"
    /\ new_suggestions = << >>
    /\ trades_to_sell = << >>
    /\ config \in Configs
    /\ log = {}
    /\ ex = NoEval
    /\ trader = NoCall
    /\ scheduler = NoScheduler /\ loops = NoLoops /\ dextools = NoClients
    /\ analysis = NoAnalysis

SpecCap == InitCap /\ [][Next]_vars

\* C13: a call of execute_buy is admitted only if fewer than 3 trades of the
\* token were created today, whichever path made the call
C13_DailyCapAdmission ==
    [][\A c \in Callers :
          Admitted(c) => TradesToday(buyer'[c].token) < DailyTradeCap]_vars

\* ---------------------------------------------------------------------------
\* Replayed suggestions: the trading processes together with the position sync
\* of sync_wallet_positions.py, which closes a position inside the hour in
\* which its suggestion is still offered by the suggestion query
NextReplay ==
    \/ Next
    \/ \E valued \in SUBSET Tokens : SyncPositions(valued)

SpecReplay == Init /\ [][NextReplay]_vars

\* C14: at most one Trade references a given suggestion_id
C14_OneTradePerSuggestion ==
    \A i, j \in TradeIds :
        (trades[i].suggestion_id # NULL
         /\ trades[i].suggestion_id = trades[j].suggestion_id) => i = j

\* ---------------------------------------------------------------------------
\* SolanaTrader: one buy_token call, or one sale from the SELECT of the open
\* trades to the end of sell_tokens

\* decimals a token can have: _get_token_decimals stores the value at buy time
TokenDecimals == {6, 9}
DefaultDecimals == 9
\* DEFAULT_SLIPPAGE_BPS, HIGH_VOLATILITY_SLIPPAGE_BPS and the extreme tolerance
DefaultSlippageBps == 500
HighVolatilitySlippageBps == 1000
ExtremeSlippageBps == 2000
RetryDelaySeconds == 3
\* the reduced-amount attempt sells 95% of the amount
ReducedNum == 95
ReducedDen == 100
\* (UI amounts are kept in units of 1/ReducedDen of a token)

\* what the RPC node answers about the associated token account
AccountStates == {"missing", "zero", "positive", "no_balance_info", "error"}
\* what simulate_transaction answers: a value without err, a value with err, an
\* exception, or a response without a value
SimOutcomes == {"ok", "err", "raises", "empty"}
StrategyName == <<"standard", "widened_slippage", "reduced_amount", "native_pool_route">>

\* the row of table trades that is sold, numeric columns only
TradeRow(d) == [id |-> 1, buy_price |-> Max(SyncPrices), buy_amount |-> Lot,
                token_decimals |-> d]
\* numeric columns in the SELECT list of check_open_trades_for_sell
SelectedColumns == {"id", "buy_price", "buy_amount"}
\* a fetched row as a dict; dict.get(key, default)
Project(row, cols) == [c \in cols \cap DOMAIN row |-> row[c]]
Get(d, key, default) == IF key \in DOMAIN d THEN d[key] ELSE default

IdleTrader(d, s) ==
    [pc |-> "idle", op |-> "none", stored_decimals |-> d, base_slippage |-> s,
     trade |-> Project(TradeRow(d), {}), account |-> "positive", verified |-> FALSE,
     decimals |-> NULL, amount |-> 0, extreme |-> FALSE, strategy |-> 0,
     attempts |-> << >>, events |-> << >>, result |-> NULL]

InitTrader ==
    /\ trades = << >>
    /\ blacklist = {}
    /\ suggested = [t \in Tokens |-> 0]
    /\ wallet = [t \in Tokens |-> 0]
    /\ chain = << >>
    /\ observed = {}
    /\ notifications = [buy |-> 0, sell |-> 0]
    /\ buyer = [c \in Callers |-> IdleBuyer]
    /\ mpc = "sleep"
    /\ new_suggestions = << >>
    /\ trades_to_sell = << >>
    /\ now = StartHour
    /\ config \in {c \in Configs : c.auto_trading_enabled}
    /\ log = {}
    /\ ex = NoEval
    /\ trader \in {IdleTrader(d, s) : d \in TokenDecimals,
                                      s \in {DefaultSlippageBps, HighVolatilitySlippageBps}}
    /\ scheduler = NoScheduler /\ loops = NoLoops /\ dextools = NoClients
    /\ analysis = NoAnalysis

Event(k, step, sim) == [strategy |-> k, step |-> step, sim |-> sim]

\* _verify_token_accounts: False when the account does not exist, when its
\* balance is not positive and on any exception; True otherwise
verify_token_accounts_skipped(account) == TRUE

verify_token_accounts(account) == account \in {"positive", "no_balance_info"}

\* _get_slippage_for_token
get_slippage_for_token(extreme, base) == IF extreme THEN ExtremeSlippageBps ELSE base

\* _sign_and_send_sell_transaction: simulate, send with skip_preflight=True,
\* confirm. The hash is returned only for a confirmation without error.
sign_and_send_sell_transaction(k, sim, submitted, confirmed) ==
    IF sim \in {"err", "raises"}
    THEN [events |-> <<Event(k, "simulate", sim)>>, result |-> NULL]
    ELSE [events |-> <<Event(k, "simulate", sim), Event(k, "send", "none")>>,
          result |-> IF submitted /\ confirmed THEN k ELSE NULL]

\* quote, swap transaction, sign and send: _attempt_single_sell, and the tail of
\* _execute_raydium_native_transaction
QuoteSwapSend(k, quote_ok, swap_ok, sim, submitted, confirmed) ==
    IF ~quote_ok THEN [events |-> <<Event(k, "quote", "none")>>, result |-> NULL]
    ELSE IF ~swap_ok
    THEN [events |-> <<Event(k, "quote", "none"), Event(k, "swap", "none")>>,
          result |-> NULL]
    ELSE LET r == sign_and_send_sell_transaction(k, sim, submitted, confirmed)
         IN [events |-> <<Event(k, "quote", "none"), Event(k, "swap", "none")>>
                        \o r.events,
             result |-> r.result]

\* the dispatcher of sell_tokens after strategy k returned result
sell_tokens_next_whatever(k, result) ==
    IF k < Len(StrategyName) THEN [pc |-> "attempt", strategy |-> k + 1]
    ELSE [pc |-> "done", strategy |-> k]

sell_tokens_next(k, result) ==
    IF result # NULL THEN [pc |-> "done", strategy |-> k]
    ELSE IF k < Len(StrategyName) THEN [pc |-> "attempt", strategy |-> k + 1]
    ELSE [pc |-> "done", strategy |-> k]

OtherThanTrader == <<trades, blacklist, suggested, wallet, chain, observed, notifications,
                     buyer, mpc, new_suggestions, trades_to_sell, now, config, log, ex,
                     analysis, scheduler, loops, dextools>>

\* check_open_trades_for_sell fetches the OPEN row
CheckOpenTradesSelect ==
    /\ trader.pc = "idle"
    /\ trader' = [trader EXCEPT !.pc = "selected", !.op = "sell",
                     !.trade = Project(TradeRow(trader.stored_decimals), SelectedColumns)]
    /\ UNCHANGED OtherThanTrader

\* execute_sell from reading token_decimals to step 0 of sell_tokens
SellTokensBegin(account) ==
    /\ trader.pc = "selected"
    /\ LET token_decimals == Get(trader.trade, "token_decimals", DefaultDecimals)
           ok == verify_token_accounts(account)
       IN trader' = [trader EXCEPT
                        !.account = account, !.verified = ok,
                        !.decimals = token_decimals,
                        !.amount = ((Lot * SellNum) \div SellDen) * ReducedDen,
                        !.pc = IF ok THEN "attempt" ELSE "done",
                        !.strategy = IF ok THEN 1 ELSE 0]
    /\ UNCHANGED OtherThanTrader

\* attempts 1 to 3 of sell_tokens: _attempt_single_sell with the amount and the
\* slippage of the strategy
AttemptSingleSell(quote_ok, swap_ok, sim, submitted, confirmed) ==
    /\ trader.pc = "attempt"
    /\ trader.strategy \in 1..3
    /\ LET k == trader.strategy
           extreme == trader.extreme \/ k >= 2
           amount == IF k = 3 THEN (trader.amount * ReducedNum) \div ReducedDen
                     ELSE trader.amount
           r == QuoteSwapSend(k, quote_ok, swap_ok, sim, submitted, confirmed)
           next == sell_tokens_next(k, r.result)
       IN trader' = [trader EXCEPT
                        !.extreme = extreme,
                        !.attempts = Append(@,
                            [strategy |-> StrategyName[k], amount |-> amount,
                             decimals |-> trader.decimals,
                             slippage_bps |-> get_slippage_for_token(extreme,
                                                                     trader.base_slippage),
                             delay |-> IF k = 2 THEN RetryDelaySeconds ELSE 0,
                             result |-> r.result]),
                        !.events = @ \o r.events,
                        !.result = r.result,
                        !.pc = next.pc, !.strategy = next.strategy]
    /\ UNCHANGED OtherThanTrader

\* attempt 4 of sell_tokens: _attempt_raydium_sdk_sell. prepared: the pool was
\* found, an output was computed and the swap instruction was built
AttemptRaydiumSdkSell(prepared, quote_ok, swap_ok, sim, submitted, confirmed) ==
    /\ trader.pc = "attempt"
    /\ trader.strategy = 4
    /\ LET k == trader.strategy
           decimals == IF trader.decimals = NULL \/ trader.decimals = 0
                       THEN DefaultDecimals ELSE trader.decimals
           r == IF prepared
                THEN LET q == QuoteSwapSend(k, quote_ok, swap_ok, sim, submitted, confirmed)
                     IN [events |-> <<Event(k, "pool", "none")>> \o q.events,
                         result |-> q.result]
                ELSE [events |-> <<Event(k, "pool", "none")>>, result |-> NULL]
           next == sell_tokens_next(k, r.result)
       IN trader' = [trader EXCEPT
                        !.attempts = Append(@,
                            [strategy |-> StrategyName[k], amount |-> trader.amount,
                             decimals |-> decimals,
                             slippage_bps |-> ExtremeSlippageBps,
                             delay |-> 0, result |-> r.result]),
                        !.events = @ \o r.events,
                        !.result = r.result,
                        !.pc = next.pc, !.strategy = next.strategy]
    /\ UNCHANGED OtherThanTrader

\* buy_token: quote, swap transaction, sign, send_raw_transaction with
\* skip_preflight=False: the node simulates the transaction and refuses it with
\* an error (an exception in the client) when the simulation fails
BuyToken(quote_ok, swap_ok, preflight_ok, submitted) ==
    /\ trader.pc = "idle"
    /\ LET ev == IF ~quote_ok THEN <<Event(0, "quote", "none")>>
                 ELSE IF ~swap_ok
                 THEN <<Event(0, "quote", "none"), Event(0, "swap", "none")>>
                 ELSE IF ~preflight_ok
                 THEN <<Event(0, "quote", "none"), Event(0, "swap", "none"),
                        Event(0, "preflight", "err")>>
                 ELSE <<Event(0, "quote", "none"), Event(0, "swap", "none"),
                        Event(0, "preflight", "ok"), Event(0, "send", "none")>>
       IN trader' = [trader EXCEPT
                        !.pc = "done", !.op = "buy", !.events = ev,
                        !.result = buy_token(quote_ok /\ swap_ok /\ preflight_ok
                                             /\ submitted, 1)]
    /\ UNCHANGED OtherThanTrader

NextTrader ==
    \/ CheckOpenTradesSelect
    \/ \E account \in AccountStates : SellTokensBegin(account)
    \/ \E quote_ok, swap_ok, submitted, confirmed \in BOOLEAN, sim \in SimOutcomes :
          AttemptSingleSell(quote_ok, swap_ok, sim, submitted, confirmed)
    \/ \E prepared, quote_ok, swap_ok, submitted, confirmed \in BOOLEAN,
          sim \in SimOutcomes :
          AttemptRaydiumSdkSell(prepared, quote_ok, swap_ok, sim, submitted, confirmed)
    \/ \E quote_ok, swap_ok, preflight_ok, submitted \in BOOLEAN :
          BuyToken(quote_ok, swap_ok, preflight_ok, submitted)

SpecTrader == InitTrader /\ [][NextTrader]_vars

Selling == trader.pc \in {"attempt", "done"} /\ trader.op = "sell"

\* C15: sell_tokens tries standard, widened slippage (after the fixed delay),
\* reduced amount, native pool route, in this order; an attempt is made only
\* after every earlier one failed, none is made after a success, and failure
\* is returned only after all four failed
C15_FallbackOrder ==
    (Selling /\ trader.verified) =>
        LET a == trader.attempts
        IN /\ \A k \in 1..Len(a) : a[k].strategy = StrategyName[k]
           /\ \A k \in 1..(Len(a) - 1) : a[k].result = NULL
           /\ Len(a) >= 2 => /\ a[2].delay = RetryDelaySeconds
                             /\ a[2].slippage_bps = ExtremeSlippageBps
                             /\ a[2].slippage_bps > a[1].slippage_bps
           /\ Len(a) >= 3 => a[3].amount < a[1].amount
           /\ trader.pc = "attempt" => (trader.strategy = Len(a) + 1 /\ Len(a) < 4)
           /\ (trader.pc = "done" /\ trader.result = NULL) =>
                 (Len(a) = 4 /\ a[4].result = NULL)
           /\ (trader.pc = "done" /\ trader.result # NULL) =>
                 a[Len(a)].result = trader.result

\* three strategies failed and the native pool route sold
C15_Witness ==
    /\ Selling
    /\ trader.pc = "done"
    /\ Len(trader.attempts) = 4
    /\ trader.result # NULL

\* C16: when the token account is missing or its balance is not positive,
\* sell_tokens returns None and no strategy ran: no quote, no transaction built,
\* simulated or sent
C16_NoAccountNoAttempt ==
    (Selling /\ trader.account \in {"missing", "zero"}) =>
        /\ trader.pc = "done"
        /\ trader.result = NULL
        /\ trader.attempts = << >>
        /\ trader.events = << >>

C16_Witness ==
    /\ Selling
    /\ trader.pc = "done"
    /\ trader.account = "zero"
    /\ trader.result = NULL

\* C17: every send of a transaction comes right after a simulation of that
\* transaction (simulate_transaction, or the node's preflight) that reported
\* no error
C17_SimulatedBeforeSend ==
    trader.pc # "off" =>
        \A i \in 1..Len(trader.events) :
            trader.events[i].step = "send" =>
                /\ i > 1
                /\ trader.events[i - 1].step \in {"simulate", "preflight"}
                /\ trader.events[i - 1].strategy = trader.events[i].strategy
                /\ trader.events[i - 1].sim = "ok"

\* C19: the decimals of every sell attempt are the token_decimals stored in
\* the Trade's row
C19_StoredDecimalsUsed ==
    Selling =>
        \A k \in 1..Len(trader.attempts) :
            trader.attempts[k].decimals = trader.stored_decimals

\* ---------------------------------------------------------------------------
\* Buy price. The trading processes with a suggestion snapshot whose price_usd
\* is a value the market feed does not quote at the time of the buy
StaleSnapshotPrices == {0, 9}

NextStale ==
    \/ \E t \in Candidates, score \in Scores : ApproveToken(t, score)
    \/ CheckNewSuggestions
    \/ \E guard_ok \in BOOLEAN : MonitorBuy(guard_ok)
    \/ \E c \in Callers, fetched \in PriceFeed, snap \in StaleSnapshotPrices,
          submitted \in BOOLEAN : BuySwap(c, fetched, snap, submitted)
    \/ \E c \in Callers, db_ok \in BOOLEAN : BuyRecord(c, db_ok)
    \/ \E prices \in [OpenIds -> PriceFeed] : CheckOpenTrades(prices)
    \/ \E outcome \in SellOutcomes, db_ok \in BOOLEAN : ExecuteSell(outcome, db_ok)
    \/ \E sig \in 1..MaxTx, ok \in BOOLEAN : ChainResolve(sig, ok)
    \/ RecentWindowPasses
    \/ \E dt \in TickHours : Tick(dt)

SpecStale == Init /\ [][NextStale]_vars

\* C18: the buy_price of a Trade created by execute_buy is a price the market
\* feed returned for the buy, never the price_usd of the snapshot
C18_BuyPriceFromMarket ==
    \A i \in TradeIds :
        trades[i].buy_transaction_hash > 0 => trades[i].buy_price \in PositivePrices

\* ---------------------------------------------------------------------------
\* TokenAnalyzer: one run of _analyze_token. Dollar amounts are in thousands.

\* self.criteria
criteria ==
    [max_market_cap |-> 3000, min_liquidity |-> 50, min_volume_24h |-> 10,
     max_initial_volume_24h |-> 2000, max_volume_liquidity_ratio |-> 8,
     warning_volume_liquidity_ratio |-> 10, min_dext_score |-> 85,
     min_holders |-> 100, max_holders_if_dropping |-> 2000, max_age_hours |-> 936,
     min_price_change_24h |-> -5, min_price_change_1h |-> -5,
     min_price_change_5m |-> -10, max_price_drop_24h |-> -15,
     max_price_drop_1h |-> -10, max_price_drop_5m |-> -15]
\* the 24h drop of the bad-distribution check (a literal in _analyze_token)
DistributionDrop24h == -5

\* what DEXTools answers (every request with statusCode 200): the requests of
\* the phases, and those of get_complete_token_analysis made after the phases
AgeHours == {1, 937}
PhaseFetches ==
    [variation24h : {-16, -6, 0}, variation1h : {-11, 0}, mcap : {1000, 4000},
     liquidity_usd : {40, 100}, volume_24h_usd : {5, 500, 900, 3000},
     holders_count : {50, 500, 2500}, dextScore : {80, 90}]
CompleteFetches ==
    [variation24h : {-16, -6, 0}, variation1h : {-11, 0}, variation5m : {-16, 0},
     mcap : {1000, 4000}, liquidity_usd : {40, 100},
     volume_24h_usd : {5, 500, 900, 3000}, holders_count : {50, 500, 2500},
     dextScore : {80, 90}]

NoSnapshot == [token_address |-> "none"]

\* which of the four requests (get_token_info, get_token_price,
\* get_token_metrics, get_token_score) answer with success and statusCode 200
FetchOutcomes == [info : BOOLEAN, price : BOOLEAN, metrics : BOOLEAN, score : BOOLEAN]
AllFetched == [info |-> TRUE, price |-> TRUE, metrics |-> TRUE, score |-> TRUE]

\* _extract_token_data: the part of an answer whose statusCode is not 200 is
\* read as {}, and every value missing from it defaults to 0
extract_token_data(age, complete, ok) ==
    [token_address |-> "T1", age_hours |-> age,
     market_cap |-> IF ok.metrics THEN complete.mcap ELSE 0,
     liquidity |-> IF ok.metrics THEN complete.liquidity_usd ELSE 0,
     volume_24h |-> IF ok.metrics THEN complete.volume_24h_usd ELSE 0,
     dext_score |-> IF ok.score THEN complete.dextScore ELSE 0,
     holders_count |-> IF ok.metrics THEN complete.holders_count ELSE 0,
     price_change_24h |-> IF ok.price THEN complete.variation24h ELSE 0,
     price_change_1h |-> IF ok.price THEN complete.variation1h ELSE 0,
     price_change_5m |-> IF ok.price THEN complete.variation5m ELSE 0]

\* _evaluate_token: approved iff the list of rejection reasons is empty
evaluate_token(td) ==
    ~ \/ (td.market_cap # 0 /\ td.market_cap > criteria.max_market_cap)
      \/ td.liquidity < criteria.min_liquidity
      \/ td.volume_24h < criteria.min_volume_24h
      \/ td.dext_score < criteria.min_dext_score
      \/ td.age_hours > criteria.max_age_hours
      \/ td.holders_count < criteria.min_holders
      \/ td.price_change_24h < criteria.max_price_drop_24h
      \/ td.price_change_1h < criteria.max_price_drop_1h
      \/ td.price_change_24h < criteria.min_price_change_24h
      \/ td.price_change_1h < criteria.min_price_change_1h
      \/ td.price_change_5m < criteria.max_price_drop_5m
      \/ td.price_change_5m < criteria.min_price_change_5m

\* the category of the first phase check of _analyze_token that rejects, "none"
\* when every phase passes; a failed score request leaves dext_score at 0
PhaseRejection(age, f, ok) ==
    IF age > criteria.max_age_hours THEN "age_check"
    ELSE IF ~ok.info THEN "api_error"
    ELSE IF ~ok.price THEN "api_error"
    ELSE IF f.variation24h < criteria.max_price_drop_24h THEN "price_drop"
    ELSE IF f.variation1h < criteria.max_price_drop_1h THEN "price_drop"
    ELSE IF f.variation24h < criteria.min_price_change_24h THEN "declining_trend"
    ELSE IF ~ok.metrics THEN "api_error"
    ELSE IF f.mcap # 0 /\ f.mcap > criteria.max_market_cap THEN "market_cap"
    ELSE IF f.liquidity_usd < criteria.min_liquidity THEN "liquidity"
    ELSE IF f.volume_24h_usd < criteria.min_volume_24h THEN "volume"
    ELSE IF f.liquidity_usd > 0
            /\ f.volume_24h_usd > criteria.warning_volume_liquidity_ratio * f.liquidity_usd
    THEN "pump_warning"
    ELSE IF f.liquidity_usd > 0
            /\ f.volume_24h_usd > criteria.max_volume_liquidity_ratio * f.liquidity_usd
    THEN "high_volume_ratio"
    ELSE IF f.volume_24h_usd > criteria.max_initial_volume_24h THEN "excessive_volume"
    ELSE IF f.holders_count < criteria.min_holders THEN "holders"
    ELSE IF f.holders_count > criteria.max_holders_if_dropping
            /\ f.variation24h < DistributionDrop24h
    THEN "bad_distribution"
    ELSE IF (IF ok.score THEN f.dextScore ELSE 0) < criteria.min_dext_score
    THEN "security_score"
    ELSE "none"

\* the request of the phases that _analyze_token made and that failed, "none"
\* when every request it made was answered: the run ends at the first failure
PhaseFailure(age, f, ok) ==
    LET category == PhaseRejection(age, f, ok)
    IN IF category = "api_error"
       THEN IF ~ok.info THEN "info" ELSE IF ~ok.price THEN "price" ELSE "metrics"
       ELSE IF category = "security_score" /\ ~ok.score THEN "score"
       ELSE "none"

InitAnalysis ==
    /\ trades = << >>
    /\ blacklist = {}
    /\ suggested = [t \in Tokens |-> 0]
    /\ wallet = [t \in Tokens |-> 0]
    /\ chain = << >>
    /\ observed = {}
    /\ notifications = [buy |-> 0, sell |-> 0]
    /\ buyer = [c \in Callers |-> IdleBuyer]
    /\ mpc = "sleep"
    /\ new_suggestions = << >>
    /\ trades_to_sell = << >>
    /\ now = StartHour
    /\ config \in {c \in Configs : c.auto_trading_enabled}
    /\ log = {}
    /\ ex = NoEval
    /\ trader = NoCall
    /\ scheduler = NoScheduler /\ loops = NoLoops /\ dextools = NoClients
    /\ analysis \in [pc : {"input"}, age : AgeHours, phase : PhaseFetches,
                     complete : CompleteFetches, phase_ok : {AllFetched},
                     complete_ok : {AllFetched}, failed : {{}}, status : {"none"},
                     category : {"none"}, snapshot : {NoSnapshot}]

\* _analyze_token: the phase checks on the data fetched phase by phase, then
\* get_complete_token_analysis (its 'success' is any() of four dictionaries,
\* which are never empty), _extract_token_data and _evaluate_token; the
\* snapshot is kept with an approval (_approve_token). failed is the set of
\* requests of the run that were not answered
AnalyzeToken ==
    /\ analysis.pc = "input"
    /\ LET category == PhaseRejection(analysis.age, analysis.phase, analysis.phase_ok)
           failure == PhaseFailure(analysis.age, analysis.phase, analysis.phase_ok)
           token_data == extract_token_data(analysis.age, analysis.complete,
                                            analysis.complete_ok)
           refetched == {r \in {"info", "price", "metrics", "score"} :
                            ~analysis.complete_ok[r]}
       IN analysis' =
            IF category # "none"
            THEN [analysis EXCEPT !.pc = "done", !.status = "rejected",
                                  !.category = category,
                                  !.failed = {failure} \ {"none"}]
            ELSE IF evaluate_token(token_data)
            THEN [analysis EXCEPT !.pc = "done", !.status = "approved",
                                  !.snapshot = token_data, !.failed = refetched]
            ELSE [analysis EXCEPT !.pc = "done", !.status = "rejected",
                                  !.category = "final_evaluation",
                                  !.failed = refetched]
    /\ UNCHANGED <<trades, blacklist, suggested, wallet, chain, observed, notifications,
                   buyer, mpc, new_suggestions, trades_to_sell, now, config, log, ex,
                   trader, scheduler, loops, dextools>>

NextAnalysis == AnalyzeToken

SpecAnalysis == InitAnalysis /\ [][NextAnalysis]_vars

\* the rejection predicates of the phases, applied to a stored snapshot
SnapshotRejections(td) ==
    {r \in {"age_check", "price_drop", "declining_trend", "market_cap", "liquidity",
            "volume", "high_volume_ratio", "excessive_volume", "bad_distribution",
            "holders", "security_score"} :
        \/ r = "age_check" /\ td.age_hours > criteria.max_age_hours
        \/ r = "price_drop" /\ (\/ td.price_change_24h < criteria.max_price_drop_24h
                                \/ td.price_change_1h < criteria.max_price_drop_1h)
        \/ r = "declining_trend" /\ td.price_change_24h < criteria.min_price_change_24h
        \/ r = "market_cap" /\ td.market_cap # 0
                            /\ td.market_cap > criteria.max_market_cap
        \/ r = "liquidity" /\ td.liquidity < criteria.min_liquidity
        \/ r = "volume" /\ td.volume_24h < criteria.min_volume_24h
        \/ r = "high_volume_ratio"
             /\ td.liquidity > 0
             /\ td.volume_24h > criteria.max_volume_liquidity_ratio * td.liquidity
        \/ r = "excessive_volume" /\ td.volume_24h > criteria.max_initial_volume_24h
        \/ r = "bad_distribution"
             /\ td.holders_count > criteria.max_holders_if_dropping
             /\ td.price_change_24h < DistributionDrop24h
        \/ r = "holders" /\ td.holders_count < criteria.min_holders
        \/ r = "security_score" /\ td.dext_score < criteria.min_dext_score}

\* C20: no rejection predicate of the phases holds of the snapshot stored with
\* an approval
C20_ApprovedSnapshotPasses ==
    (analysis.pc = "done" /\ analysis.status = "approved") =>
        SnapshotRejections(analysis.snapshot) = {}

\* C21: a candidate whose liquidity is below min_liquidity is rejected with
\* category liquidity, whatever its other metrics are
C21_LowLiquidityCategory ==
    (analysis.pc = "done" /\ analysis.phase.liquidity_usd < criteria.min_liquidity) =>
        (analysis.status = "rejected" /\ analysis.category = "liquidity")

\* ---------------------------------------------------------------------------
\* One run of _analyze_token in which requests may fail. The answers are those
\* of a token that passes every check, or of one whose 1h price is dropping.
FetchAges == {1}
FetchAnswers ==
    [variation24h : {0}, variation1h : {-11, 0}, variation5m : {0}, mcap : {1000},
     liquidity_usd : {100}, volume_24h_usd : {500}, holders_count : {500},
     dextScore : {90}]

InitFetch ==
    /\ trades = << >>
    /\ blacklist = {}
    /\ suggested = [t \in Tokens |-> 0]
    /\ wallet = [t \in Tokens |-> 0]
    /\ chain = << >>
    /\ observed = {}
    /\ notifications = [buy |-> 0, sell |-> 0]
    /\ buyer = [c \in Callers |-> IdleBuyer]
    /\ mpc = "sleep"
    /\ new_suggestions = << >>
    /\ trades_to_sell = << >>
    /\ now = StartHour
    /\ config \in {c \in Configs : c.auto_trading_enabled}
    /\ log = {}
    /\ ex = NoEval
    /\ trader = NoCall
    /\ scheduler = NoScheduler /\ loops = NoLoops /\ dextools = NoClients
    /\ analysis \in [pc : {"input"}, age : FetchAges, phase : FetchAnswers,
                     complete : FetchAnswers, phase_ok : FetchOutcomes,
                     complete_ok : FetchOutcomes, failed : {{}}, status : {"none"},
                     category : {"none"}, snapshot : {NoSnapshot}]

SpecFetch == InitFetch /\ [][NextAnalysis]_vars

\* C22: a run of _analyze_token in which a request failed ends with a rejection
\* of category api_error
C22_FetchFailureApiError ==
    (analysis.pc = "done" /\ analysis.failed # {}) =>
        (analysis.status = "rejected" /\ analysis.category = "api_error")

\* ---------------------------------------------------------------------------
\* TokenAnalyzer: the cycles of _analysis_loop. Time is in seconds. The hot
\* pools are ranked 1..HotPoolsLimit and a pool's token is named by its rank;
\* old pools are rejected by the age check, the tokens of YoungPools are
\* approved or rejected.
HotPoolsLimit == 30
MaxPerCycle == 5
ApprovedKept == 10
RejectedKept == 20
ReevaluationCooldownSeconds == 300
CycleSleepSeconds == 30
MaxSchedulerClock == 330
YoungPools == {29, 30}
ApprovedScores == {60, 70}
Rejection == [approved |-> FALSE, score |-> 0]
AnalysisOutcomes == {Rejection} \cup [approved : {TRUE}, score : ApprovedScores]
\* seconds a cycle takes beyond its sleep
CycleDelays == {0, 30}

\* get_hot_pools(30) followed by pools.reverse()
HotPools == [i \in 1..HotPoolsLimit |-> HotPoolsLimit + 1 - i]

InitScheduler ==
    /\ trades = << >>
    /\ blacklist = {}
    /\ suggested = [t \in Tokens |-> 0]
    /\ wallet = [t \in Tokens |-> 0]
    /\ chain = << >>
    /\ observed = {}
    /\ notifications = [buy |-> 0, sell |-> 0]
    /\ buyer = [c \in Callers |-> IdleBuyer]
    /\ mpc = "sleep"
    /\ new_suggestions = << >>
    /\ trades_to_sell = << >>
    /\ now = StartHour
    /\ config \in {c \in Configs : c.auto_trading_enabled}
    /\ log = {}
    /\ ex = NoEval
    /\ trader = NoCall
    /\ analysis = NoAnalysis
    /\ scheduler = [pc |-> "loop", clock |-> 0, analysis_results |-> << >>,
                    rejected_tokens |-> << >>,
                    evaluated_at |-> [t \in 1..HotPoolsLimit |-> NULL],
                    shortest_gap |-> NULL]
    /\ loops = NoLoops
    /\ dextools = NoClients

\* _was_recently_analyzed
was_recently_analyzed(st, token_address) ==
    LET all_analyses == st.analysis_results \o st.rejected_tokens
    IN \E k \in 1..Len(all_analyses) :
          /\ all_analyses[k].token_address = token_address
          /\ all_analyses[k].analyzed_at > st.clock - ReevaluationCooldownSeconds

\* list.sort(key=score, reverse=True) of a list that was sorted before the
\* append: the new entry goes behind the entries whose score is not lower
SortedByScore(results, entry) ==
    LET before == SelectSeq(results, LAMBDA r : r.score >= entry.score)
        after == SelectSeq(results, LAMBDA r : r.score < entry.score)
    IN before \o <<entry>> \o after

\* _approve_token: the in-memory list keeps the ApprovedKept best scores
approve_token(st, token_address, score) ==
    LET sorted == SortedByScore(st.analysis_results,
                                [token_address |-> token_address, score |-> score,
                                 analyzed_at |-> st.clock])
    IN [st EXCEPT !.analysis_results =
                      SubSeq(sorted, 1, IF Len(sorted) < ApprovedKept THEN Len(sorted)
                                        ELSE ApprovedKept)]

\* a _reject_token that keeps the first RejectedKept entries
reject_token_keep_first(st, token_address) ==
    LET appended == Append(st.rejected_tokens,
                           [token_address |-> token_address, analyzed_at |-> st.clock])
    IN [st EXCEPT !.rejected_tokens =
                      IF Len(appended) <= RejectedKept THEN appended
                      ELSE SubSeq(appended, 1, RejectedKept)]

\* _reject_token: the in-memory list keeps the last RejectedKept entries
reject_token(st, token_address) ==
    LET appended == Append(st.rejected_tokens,
                           [token_address |-> token_address, analyzed_at |-> st.clock])
        n == Len(appended)
    IN [st EXCEPT !.rejected_tokens =
                      IF n <= RejectedKept THEN appended
                      ELSE SubSeq(appended, n - RejectedKept + 1, n)]

\* _analyze_token as the scheduler sees it; evaluated_at and shortest_gap
\* record when each token was evaluated and the shortest time between two
\* evaluations of one token
analyze_token(st, token_address, outcome) ==
    LET last == st.evaluated_at[token_address]
        gap == st.clock - last
        noted == [st EXCEPT !.evaluated_at[token_address] = st.clock,
                            !.shortest_gap =
                                IF last = NULL THEN @
                                ELSE IF @ = NULL \/ gap < @ THEN gap ELSE @]
    IN IF outcome.approved THEN approve_token(noted, token_address, outcome.score)
       ELSE reject_token(noted, token_address)

\* the for loop of _analyze_next_token from pool i on
RECURSIVE AnalyzePools(_, _, _, _)
AnalyzePools(st, i, tokens_analyzed, outcomes) ==
    IF i > Len(HotPools) \/ tokens_analyzed >= MaxPerCycle THEN st
    ELSE IF was_recently_analyzed(st, HotPools[i])
    THEN AnalyzePools(st, i + 1, tokens_analyzed, outcomes)
    ELSE AnalyzePools(analyze_token(st, HotPools[i],
                                    IF HotPools[i] \in YoungPools
                                    THEN outcomes[HotPools[i]] ELSE Rejection),
                      i + 1, tokens_analyzed + 1, outcomes)

\* one pass of _analysis_loop: _analyze_next_token, then the sleep
AnalyzeNextToken(pools_ok, outcomes, delay) ==
    /\ scheduler.pc = "loop"
    /\ scheduler.clock < MaxSchedulerClock
    /\ LET st == IF pools_ok THEN AnalyzePools(scheduler, 1, 0, outcomes) ELSE scheduler
       IN scheduler' = [st EXCEPT !.clock = @ + CycleSleepSeconds + delay]
    /\ UNCHANGED <<trades, blacklist, suggested, wallet, chain, observed, notifications,
                   buyer, mpc, new_suggestions, trades_to_sell, now, config, log, ex,
                   trader, analysis, loops, dextools>>

NextScheduler ==
    \E pools_ok \in BOOLEAN, outcomes \in [YoungPools -> AnalysisOutcomes],
       delay \in CycleDelays : AnalyzeNextToken(pools_ok, outcomes, delay)

SpecScheduler == InitScheduler /\ [][NextScheduler]_vars

\* C23: a token is never evaluated again less than the re-evaluation cooldown
\* after its previous evaluation
C23_NoReevaluationInCooldown ==
    scheduler.shortest_gap # NULL =>
        scheduler.shortest_gap >= ReevaluationCooldownSeconds

\* ---------------------------------------------------------------------------
\* The background threads: TokenAnalyzer._analysis_loop ("analyzer") and
\* TradeMonitor._monitor_loop ("monitor"). Time is in seconds. A cycle
\* (_analyze_next_token; _check_new_suggestions, _check_open_trades,
\* _show_statistics) catches every Exception itself, so neither loop reaches
\* its except branch. left is what remains of the time.sleep call in progress,
\* naps the iterations of the analyzer's for loop still to run. late and
\* flagged_in record when and where the stop flag was set.
Loops == {"analyzer", "monitor"}
MonitoringIntervalSeconds == 30
NapSeconds == 1
MaxLate == 2

InitLoops ==
    /\ trades = << >>
    /\ blacklist = {}
    /\ suggested = [t \in Tokens |-> 0]
    /\ wallet = [t \in Tokens |-> 0]
    /\ chain = << >>
    /\ observed = {}
    /\ notifications = [buy |-> 0, sell |-> 0]
    /\ buyer = [c \in Callers |-> IdleBuyer]
    /\ mpc = "sleep"
    /\ new_suggestions = << >>
    /\ trades_to_sell = << >>
    /\ now = StartHour
    /\ config \in {c \in Configs : c.auto_trading_enabled}
    /\ log = {}
    /\ ex = NoEval
    /\ trader = NoCall
    /\ analysis = NoAnalysis
    /\ scheduler = NoScheduler
    /\ loops = [l \in Loops |-> [running |-> TRUE, pc |-> "cycle", left |-> 0,
                                 naps |-> 0, late |-> 0, flagged_in |-> "none"]]
    /\ dextools = NoClients

OtherThanLoops ==
    <<trades, blacklist, suggested, wallet, chain, observed, notifications, buyer, mpc,
      new_suggestions, trades_to_sell, now, config, log, ex, trader, analysis,
      scheduler, dextools>>

\* the test of `while self.is_running` / `while self.running`
WhileRunning(l) ==
    IF l.running THEN [l EXCEPT !.pc = "cycle"] ELSE [l EXCEPT !.pc = "exited"]

\* the cycle in progress ends: with the flag set neither loop sleeps and the
\* test of its while loop ends the thread; otherwise the first time.sleep call
RunCycle(L) ==
    /\ loops[L].pc = "cycle"
    /\ loops' = [loops EXCEPT ![L] =
          IF ~@.running THEN WhileRunning(@)
          ELSE IF L = "analyzer"
          THEN [@ EXCEPT !.pc = "sleep", !.left = NapSeconds,
                         !.naps = CycleSleepSeconds - 1]
          ELSE [@ EXCEPT !.pc = "sleep", !.left = MonitoringIntervalSeconds]]
    /\ UNCHANGED OtherThanLoops

\* a time.sleep call returns: the analyzer's for loop tests the flag before
\* each nap, the monitor goes back to the test of its while loop
Wake(L) ==
    /\ loops[L].pc = "sleep"
    /\ loops[L].left = 0
    /\ loops' = [loops EXCEPT ![L] =
          IF L = "analyzer" /\ @.naps > 0
          THEN IF @.running THEN [@ EXCEPT !.left = NapSeconds, !.naps = @ - 1]
               ELSE [@ EXCEPT !.pc = "exited"]
          ELSE WhileRunning(@)]
    /\ UNCHANGED OtherThanLoops

\* stop_background_analysis / TradeMonitor.stop set the flag
StopLoop(L) ==
    /\ loops[L].running
    /\ loops[L].pc # "exited"
    /\ loops' = [loops EXCEPT ![L].running = FALSE, ![L].flagged_in = loops[L].pc]
    /\ UNCHANGED OtherThanLoops

\* one second passes; a sleep that is over returns before the next second
Second ==
    /\ \A L \in Loops : ~(loops[L].pc = "sleep" /\ loops[L].left = 0)
    /\ \E L \in Loops : loops[L].pc # "exited"
    /\ loops' = [L \in Loops |->
          [loops[L] EXCEPT
              !.left = IF loops[L].pc = "sleep" THEN @ - 1 ELSE @,
              !.late = IF ~loops[L].running /\ loops[L].pc # "exited" /\ @ < MaxLate
                       THEN @ + 1 ELSE @]]
    /\ UNCHANGED OtherThanLoops

NextLoops ==
    \/ \E L \in Loops : RunCycle(L)
    \/ \E L \in Loops : Wake(L)
    \/ \E L \in Loops : StopLoop(L)
    \/ Second

SpecLoops == InitLoops /\ [][NextLoops]_vars

\* C24: a loop whose stop flag was set during a sleep is not in a cycle
\* afterwards, and its thread has exited one second later
C24_StopWithinOneSecond ==
    \A L \in Loops :
        loops[L].flagged_in = "sleep" =>
            /\ loops[L].pc # "cycle"
            /\ loops[L].late > 1 => loops[L].pc = "exited"

\* ---------------------------------------------------------------------------
\* The requests to DEXTools. Time is in seconds of time.time(). The analyzer
\* thread sends through TokenAnalyzer.dextools, one DEXToolsService kept for
\* the life of the process; SellService._get_current_token_price, called by
\* the monitor thread for every open trade, sends through a DEXToolsService it
\* has just constructed. last_sent and shortest_gap record when the process
\* last sent a request and the shortest time between two requests in a row.
RateLimitDelay == 2
MaxRateClock == 8
Threads == {"analyzer", "monitor"}

InitRate ==
    /\ trades = << >>
    /\ blacklist = {}
    /\ suggested = [t \in Tokens |-> 0]
    /\ wallet = [t \in Tokens |-> 0]
    /\ chain = << >>
    /\ observed = {}
    /\ notifications = [buy |-> 0, sell |-> 0]
    /\ buyer = [c \in Callers |-> IdleBuyer]
    /\ mpc = "sleep"
    /\ new_suggestions = << >>
    /\ trades_to_sell = << >>
    /\ now = StartHour
    /\ config \in {c \in Configs : c.auto_trading_enabled}
    /\ log = {}
    /\ ex = NoEval
    /\ trader = NoCall
    /\ analysis = NoAnalysis
    /\ scheduler = NoScheduler
    /\ loops = NoLoops
    /\ dextools = [clock |-> RateLimitDelay, analyzer_last_request_time |-> 0,
                   sleeping |-> [th \in Threads |-> NULL], last_sent |-> NULL,
                   shortest_gap |-> NULL]

OtherThanDextools ==
    <<trades, blacklist, suggested, wallet, chain, observed, notifications, buyer, mpc,
      new_suggestions, trades_to_sell, now, config, log, ex, trader, analysis,
      scheduler, loops>>

\* self._last_request_time of the instance a thread sends through: that of a
\* DEXToolsService just constructed is 0
last_request_time(th) ==
    IF th = "analyzer" THEN dextools.analyzer_last_request_time ELSE 0

\* requests.get, and the bookkeeping after it
Sent(d, th) ==
    LET gap == d.clock - d.last_sent
    IN [d EXCEPT !.last_sent = d.clock,
                 !.shortest_gap = IF d.last_sent = NULL THEN @
                                  ELSE IF @ = NULL \/ gap < @ THEN gap ELSE @,
                 !.analyzer_last_request_time = IF th = "analyzer" THEN d.clock ELSE @,
                 !.sleeping[th] = NULL]

\* _make_request up to its time.sleep, or to its end when it does not sleep
MakeRequest(th) ==
    /\ dextools.sleeping[th] = NULL
    /\ LET time_since_last == dextools.clock - last_request_time(th)
       IN dextools' =
            IF time_since_last < RateLimitDelay
            THEN [dextools EXCEPT !.sleeping[th] =
                                      dextools.clock + RateLimitDelay - time_since_last]
            ELSE Sent(dextools, th)
    /\ UNCHANGED OtherThanDextools

\* _make_request after its time.sleep
MakeRequestAfterSleep(th) ==
    /\ dextools.sleeping[th] # NULL
    /\ dextools.clock >= dextools.sleeping[th]
    /\ dextools' = Sent(dextools, th)
    /\ UNCHANGED OtherThanDextools

RateSecond ==
    /\ dextools.clock < MaxRateClock
    /\ \A th \in Threads :
          dextools.sleeping[th] # NULL => dextools.clock < dextools.sleeping[th]
    /\ dextools' = [dextools EXCEPT !.clock = @ + 1]
    /\ UNCHANGED OtherThanDextools

NextRate ==
    \/ \E th \in Threads : MakeRequest(th)
    \/ \E th \in Threads : MakeRequestAfterSleep(th)
    \/ RateSecond

SpecRate == InitRate /\ [][NextRate]_vars

\* C25: two requests in a row to DEXTools are at least the minimum delay apart,
\* whichever threads and client instances sent them
C25_GlobalRequestSpacing ==
    dextools.shortest_gap # NULL => dextools.shortest_gap >= RateLimitDelay

\* ---------------------------------------------------------------------------
\* C26: the sell fields, the sell_reason and the profit/loss of a CLOSED Trade
\* are never written again
C26_ClosedNeverClosedAgain ==
    [][\A i \in TradeIds :
          trades[i].status = "CLOSED" =>
              /\ trades'[i].status = "CLOSED"
              /\ trades'[i].sell_price = trades[i].sell_price
              /\ trades'[i].sell_time = trades[i].sell_time
              /\ trades'[i].sell_transaction_hash = trades[i].sell_transaction_hash
              /\ trades'[i].sell_reason = trades[i].sell_reason
              /\ trades'[i].profit_loss_percentage = trades[i].profit_loss_percentage]_vars

\* ---------------------------------------------------------------------------
\* The monitor's cycles over a position bought half a day ago, with no new
\* suggestion: the buy transaction is pending, confirmed or failed, every sell
\* swap that is attempted is confirmed and recorded, pending transactions
\* settle, time passes and the cycles go on for ever. The operator may move
\* tokens out of the wallet and buy another token.
BoughtStates ==
    {[status |-> "pending", balance |-> 0], [status |-> "failed", balance |-> 0],
     [status |-> "confirmed", balance |-> Lot]}

InitLive ==
    /\ now = StartHour + Max(TickHours)
    /\ \E buy_price \in PositivePrices :
          trades = <<[NewTrade("T1", buy_price, Lot, 1, NULL)
                         EXCEPT !.buy_time = StartHour, !.recent = FALSE]>>
    /\ blacklist = {}
    /\ suggested = [t \in Tokens |-> 0]
    /\ \E bought \in BoughtStates :
          /\ wallet = [t \in Tokens |-> IF t = "T1" THEN bought.balance ELSE 0]
          /\ chain = <<[status |-> bought.status, kind |-> "buy", token |-> "T1",
                        amount |-> Lot]>>
    /\ observed = {}
    /\ notifications = [buy |-> 1, sell |-> 0]
    /\ buyer = [c \in Callers |-> IdleBuyer]
    /\ mpc = "sleep"
    /\ new_suggestions = << >>
    /\ trades_to_sell = << >>
    /\ config \in {c \in Configs : c.auto_trading_enabled}
    /\ log = {}
    /\ ex = NoEval
    /\ trader = NoCall
    /\ analysis = NoAnalysis
    /\ scheduler = NoScheduler /\ loops = NoLoops /\ dextools = NoClients

NextLive ==
    \/ CheckNewSuggestions
    \/ \E prices \in [OpenIds -> PriceFeed] : CheckOpenTrades(prices)
    \/ ExecuteSell("confirmed", TRUE)
    \/ \E sig \in 1..MaxTx, ok \in BOOLEAN : ChainResolve(sig, ok)
    \/ \E t \in Tokens : ManualTransfer(t)
    \/ \E t \in Tokens \ Candidates : ManualDeposit(t)
    \/ \E dt \in TickHours : Tick(dt)

SpecLive ==
    /\ InitLive
    /\ [][NextLive]_vars
    /\ WF_vars(CheckNewSuggestions)
    /\ WF_vars(\E prices \in [OpenIds -> PriceFeed] : CheckOpenTrades(prices))
    /\ WF_vars(ExecuteSell("confirmed", TRUE))
    /\ WF_vars(\E sig \in 1..MaxTx, ok \in BOOLEAN : ChainResolve(sig, ok))
    /\ SF_vars(\E dt \in TickHours : Tick(dt))

\* C27: every OPEN Trade held for TimeoutHours or more is eventually CLOSED
C27_TimeoutEventuallyClosed ==
    \A i \in 1..MaxTrades :
        (i \in OpenIds /\ now - trades[i].buy_time >= TimeoutHours)
            ~> (i \in TradeIds /\ trades[i].status = "CLOSED")

\* ---------------------------------------------------------------------------
\* C28: while auto_trading_enabled is not 'true', no execute_buy call is
\* admitted by should_buy_token, submits a swap or creates a Trade
C28_DisabledNeverBuys ==
    ~config.auto_trading_enabled =>
        /\ \A c \in Callers : buyer[c].pc = "idle"
        /\ \A sig \in 1..Len(chain) : chain[sig].kind # "buy"
        /\ \A i \in TradeIds : trades[i].buy_transaction_hash <= 0

\* the analyzer saved a suggestion with a score of 80 or more and called
\* execute_buy for it while trading was disabled; the wallet sync imported a
\* position meanwhile
C28_Witness ==
    /\ ~config.auto_trading_enabled
    /\ suggested["T1"] > 0
    /\ trades # << >>

\* ---------------------------------------------------------------------------
\* C29: the third strategy of sell_tokens requests its quote for 95% of the
\* amount at the default slippage tolerance
C29_ReducedAtDefaultSlippage ==
    (Selling /\ Len(trader.attempts) >= 3) =>
        /\ trader.attempts[3].amount
               = (trader.attempts[1].amount * ReducedNum) \div ReducedDen
        /\ trader.attempts[3].slippage_bps = DefaultSlippageBps

\* ---------------------------------------------------------------------------
\* The high-volatility set over several sells of one token. Every sell of
\* SellService._execute_real_sell_transaction builds its own SolanaTrader, whose
\* high_volatility_tokens is loaded from HIGH_VOLATILITY_TOKENS.
MaxSells == 3
VolatileToken == "T1"
\* where an attempt can fail; "sold" when it returns a hash
AttemptOutcomes == {"sold", "quote", "swap", "simulation", "send", "confirmation"}
\* the failures whose error text is handed to _log_slippage_error
LoggedFailures == {"quote", "swap", "confirmation"}

\* SolanaTrader.__init__: high_volatility_tokens from the environment, no
\* _extreme_slippage_tokens yet
NewSolanaTrader(listed) ==
    [high_volatility_tokens |-> listed, extreme_slippage_tokens |-> {}]

InitVolatility ==
    /\ trades = << >>
    /\ blacklist = {}
    /\ suggested = [t \in Tokens |-> 0]
    /\ wallet = [t \in Tokens |-> 0]
    /\ chain = << >>
    /\ observed = {}
    /\ notifications = [buy |-> 0, sell |-> 0]
    /\ buyer = [c \in Callers |-> IdleBuyer]
    /\ mpc = "sleep"
    /\ new_suggestions = << >>
    /\ trades_to_sell = << >>
    /\ now = StartHour
    /\ config \in {c \in Configs : c.auto_trading_enabled}
    /\ log = {}
    /\ ex = NoEval
    /\ \E listed \in SUBSET {VolatileToken} :
          trader = [pc |-> "idle", listed |-> listed, instance |-> NewSolanaTrader(listed),
                    strategy |-> 0, sells |-> 0, failed_0x1788 |-> {},
                    first_quotes |-> << >>, tried |-> << >>,
                    returned |-> NULL, sell_transaction_hash |-> NULL]
    /\ scheduler = NoScheduler /\ loops = NoLoops /\ dextools = NoClients
    /\ analysis = NoAnalysis

\* _get_slippage_for_token on an instance
instance_slippage(inst, t) ==
    get_slippage_for_token(t \in inst.extreme_slippage_tokens,
                           IF t \in inst.high_volatility_tokens
                           THEN HighVolatilitySlippageBps ELSE DefaultSlippageBps)

\* _log_slippage_error: a text with 0x1788 adds the token to the instance's set
log_slippage_error(inst, has_0x1788, t) ==
    IF has_0x1788
    THEN [inst EXCEPT !.high_volatility_tokens = @ \cup {t}]
    ELSE inst

\* _execute_real_sell_transaction up to step 0 of sell_tokens: a new
\* SolanaTrader, then the token account verification
ExecuteRealSellTransaction(accounts_ok) ==
    /\ trader.pc = "idle"
    /\ trader.sells < MaxSells
    /\ trader' = [trader EXCEPT
                     !.instance = NewSolanaTrader(trader.listed),
                     !.sells = @ + 1,
                     !.tried = << >>,
                     !.returned = NULL,
                     !.pc = IF accounts_ok THEN "attempt" ELSE "idle",
                     !.strategy = IF accounts_ok THEN 1 ELSE 0]
    /\ UNCHANGED OtherThanTrader

\* the signature of the transaction that strategy k of the n-th sell sends
SignatureOf(n, k) == n * 10 + k

\* attempts 1 to 3 of sell_tokens on the instance of this sell; a hash returned
\* by an attempt is returned by sell_tokens and written by execute_sell with
\* _record_sell_transaction
AttemptOnInstance(outcome, has_0x1788) ==
    /\ trader.pc = "attempt"
    /\ trader.strategy \in 1..3
    /\ LET t == VolatileToken
           k == trader.strategy
           inst == IF k = 2
                   THEN [trader.instance EXCEPT !.extreme_slippage_tokens = @ \cup {t}]
                   ELSE trader.instance
           slippage_bps == instance_slippage(inst, t)
           logged == outcome \in LoggedFailures /\ has_0x1788
           tx_hash == IF outcome \in {"sold", "confirmation"}
                      THEN SignatureOf(trader.sells, k) ELSE NULL
           result == IF outcome = "sold" THEN tx_hash ELSE NULL
       IN trader' = [trader EXCEPT
                        !.tried = Append(@, [outcome |-> outcome, has_0x1788 |-> logged,
                                             slippage_bps |-> slippage_bps,
                                             tx_hash |-> tx_hash]),
                        !.returned = result,
                        !.sell_transaction_hash = IF result # NULL THEN result ELSE @,
                        !.instance = log_slippage_error(inst, logged, t),
                        !.first_quotes =
                            IF k = 1
                            THEN Append(@, [slippage_bps |-> slippage_bps,
                                            in_set |-> t \in inst.high_volatility_tokens,
                                            after_0x1788 |-> t \in trader.failed_0x1788])
                            ELSE @,
                        !.failed_0x1788 =
                            IF outcome = "confirmation" /\ has_0x1788
                            THEN @ \cup {t} ELSE @,
                        !.pc = IF outcome = "sold" THEN "idle" ELSE "attempt",
                        !.strategy = IF outcome = "sold" THEN 0 ELSE k + 1]
    /\ UNCHANGED OtherThanTrader

\* attempt 4 of sell_tokens and the return of _execute_real_sell_transaction:
\* after a failure the token is added to the list of one more new SolanaTrader
RaydiumOnInstance(sold) ==
    /\ trader.pc = "attempt"
    /\ trader.strategy = 4
    /\ trader' = [trader EXCEPT
                     !.instance =
                         IF sold THEN @
                         ELSE [NewSolanaTrader(trader.listed) EXCEPT
                                  !.high_volatility_tokens = @ \cup {VolatileToken}],
                     !.pc = "idle", !.strategy = 0]
    /\ UNCHANGED OtherThanTrader

NextVolatility ==
    \/ \E accounts_ok \in BOOLEAN : ExecuteRealSellTransaction(accounts_ok)
    \/ \E outcome \in AttemptOutcomes, has_0x1788 \in BOOLEAN :
          AttemptOnInstance(outcome, has_0x1788)
    \/ \E sold \in BOOLEAN : RaydiumOnInstance(sold)

SpecVolatility == InitVolatility /\ [][NextVolatility]_vars

\* C30: once a swap of the token failed with 0x1788, the token is in the
\* high-volatility set and every later sell requests its first quote at the
\* widened tolerance
C30_WidenedAfterSlippageFailure ==
    \A k \in 1..Len(trader.first_quotes) :
        trader.first_quotes[k].after_0x1788 =>
            /\ trader.first_quotes[k].in_set
            /\ trader.first_quotes[k].slippage_bps = HighVolatilitySlippageBps

\* the high_volatility_tokens a reader finds: during a sell the set of the
\* sell's instance; after the sell returned that instance is gone and a reader
\* (execute_sell, _execute_real_sell_transaction) builds a new SolanaTrader
HighVolatilityTokensRead ==
    IF trader.pc = "idle"
    THEN NewSolanaTrader(trader.listed).high_volatility_tokens
    ELSE trader.instance.high_volatility_tokens

\* attempt 1 failed at confirmation with 0x1788, attempt 2 was confirmed and
\* the sell returned
ScenarioE ==
    /\ trader.pc = "idle"
    /\ Len(trader.tried) = 2
    /\ trader.tried[1].outcome = "confirmation" /\ trader.tried[1].has_0x1788
    /\ trader.tried[2].outcome = "sold"

\* C31: after attempt 1 failed with 0x1788 and attempt 2 was confirmed, the
\* token is in the high-volatility set, and the hash returned and recorded in
\* the Trade is the hash of attempt 2, never the one of attempt 1
C31_ScenarioE ==
    ScenarioE =>
        /\ VolatileToken \in HighVolatilityTokensRead
        /\ trader.returned = trader.tried[2].tx_hash
        /\ trader.sell_transaction_hash = trader.tried[2].tx_hash
        /\ trader.sell_transaction_hash # trader.tried[1].tx_hash

\* the hash part of scenario E alone (holds)
HashOfSecondAttemptRecorded ==
    ScenarioE =>
        /\ trader.returned = trader.tried[2].tx_hash
        /\ trader.sell_transaction_hash = trader.tried[2].tx_hash
        /\ trader.sell_transaction_hash # trader.tried[1].tx_hash

\* ---------------------------------------------------------------------------
\* update_criteria from the API thread while the analysis thread runs one
\* _analyze_token. The phases are separated by the DEXTools requests of the
\* run, where the threads switch. self.criteria is one dict, read by every
\* check when the check runs.
MaxUpdates == 2
\* bodies of PUT /analyzer/criteria
CriteriaUpdates ==
    {[min_liquidity |-> 30], [min_dext_score |-> 75], [max_age_hours |-> 24]}
\* the candidate: the answers that are not listed pass every check
CriteriaTokens == [age : {1, 30}, liquidity_usd : {40, 100}, dextScore : {80, 90}]
CriteriaPhases == <<"age", "price", "metrics", "score", "evaluate">>

\* dict.update
DictUpdate(d, new) ==
    [k \in (DOMAIN d) \cup (DOMAIN new) |-> IF k \in DOMAIN new THEN new[k] ELSE d[k]]

\* the checks of _analyze_token and, in phase evaluate, of _evaluate_token, in
\* the order of the code, decided against the dict c as it is when they run
CriteriaChecks(c, f) ==
    << [phase |-> "age", name |-> "max_age_hours", category |-> "age_check",
        rejects |-> f.age > c.max_age_hours],
       [phase |-> "price", name |-> "max_price_drop_24h", category |-> "price_drop",
        rejects |-> 0 < c.max_price_drop_24h],
       [phase |-> "metrics", name |-> "min_liquidity", category |-> "liquidity",
        rejects |-> f.liquidity_usd < c.min_liquidity],
       [phase |-> "score", name |-> "min_dext_score", category |-> "security_score",
        rejects |-> f.dextScore < c.min_dext_score],
       [phase |-> "evaluate", name |-> "min_liquidity", category |-> "final_evaluation",
        rejects |-> f.liquidity_usd < c.min_liquidity],
       [phase |-> "evaluate", name |-> "min_dext_score", category |-> "final_evaluation",
        rejects |-> f.dextScore < c.min_dext_score],
       [phase |-> "evaluate", name |-> "max_age_hours", category |-> "final_evaluation",
        rejects |-> f.age > c.max_age_hours] >>

InitCriteria ==
    /\ trades = << >>
    /\ blacklist = {}
    /\ suggested = [t \in Tokens |-> 0]
    /\ wallet = [t \in Tokens |-> 0]
    /\ chain = << >>
    /\ observed = {}
    /\ notifications = [buy |-> 0, sell |-> 0]
    /\ buyer = [c \in Callers |-> IdleBuyer]
    /\ mpc = "sleep"
    /\ new_suggestions = << >>
    /\ trades_to_sell = << >>
    /\ now = StartHour
    /\ config \in {c \in Configs : c.auto_trading_enabled}
    /\ log = {}
    /\ ex = NoEval
    /\ trader = NoCall
    /\ scheduler = NoScheduler /\ loops = NoLoops /\ dextools = NoClients
    /\ analysis \in [pc : {1}, token : CriteriaTokens, criteria : {criteria},
                     started_with : {criteria}, used : {{}}, updates : {0},
                     status : {"none"}, category : {"none"}]

OtherThanAnalysis == <<trades, blacklist, suggested, wallet, chain, observed,
                       notifications, buyer, mpc, new_suggestions, trades_to_sell, now,
                       config, log, ex, trader, scheduler, loops, dextools>>

\* one phase of _analyze_token: its checks run in order against self.criteria
\* and the first one that rejects ends the run; _evaluate_token runs all of its
\* checks. used: the thresholds the run has compared with, as it read them
RunPhase ==
    /\ analysis.pc \in 1..Len(CriteriaPhases)
    /\ LET c == analysis.criteria
           all == CriteriaChecks(c, analysis.token)
           mine == {i \in 1..Len(all) : all[i].phase = CriteriaPhases[analysis.pc]}
           rejecting == {i \in mine : all[i].rejects}
           first == IF rejecting = {} THEN Len(all) + 1
                    ELSE CHOOSE i \in rejecting : \A j \in rejecting : i <= j
           ran == IF CriteriaPhases[analysis.pc] = "evaluate" THEN mine
                  ELSE {i \in mine : i <= first}
           last == analysis.pc = Len(CriteriaPhases)
       IN analysis' = [analysis EXCEPT
                          !.started_with = IF analysis.pc = 1 THEN c ELSE @,
                          !.used = @ \cup {[name |-> all[i].name,
                                            value |-> c[all[i].name]] : i \in ran},
                          !.status = IF rejecting # {} THEN "rejected"
                                     ELSE IF last THEN "approved" ELSE @,
                          !.category = IF rejecting # {} THEN all[first].category ELSE @,
                          !.pc = IF rejecting # {} \/ last THEN 0 ELSE @ + 1]
    /\ UNCHANGED OtherThanAnalysis

\* TokenAnalyzer.update_criteria, called by the route PUT /analyzer/criteria
UpdateCriteria(new_criteria) ==
    /\ analysis.pc # 0
    /\ analysis.updates < MaxUpdates
    /\ analysis' = [analysis EXCEPT
                       !.criteria = DictUpdate(@, new_criteria),
                       !.updates = @ + 1]
    /\ UNCHANGED OtherThanAnalysis

NextCriteria ==
    \/ RunPhase
    \/ \E new_criteria \in CriteriaUpdates : UpdateCriteria(new_criteria)

SpecCriteria == InitCriteria /\ [][NextCriteria]_vars

\* C32: every threshold one evaluation compares with has the value the criteria
\* had when the evaluation began, whatever update_criteria does meanwhile
C32_OneCriteriaPerEvaluation ==
    \A u \in analysis.used : u.value = analysis.started_with[u.name]

\* ---------------------------------------------------------------------------
\* One cycle of _analyze_next_token in which an evaluation may raise: the
\* try/except of _analyze_token turns the exception into a rejection.
MaxGuardedCycles == 1
Raised == [approved |-> FALSE, score |-> 0, raised |-> TRUE]
GuardedOutcomes == {Rejection, [approved |-> TRUE, score |-> 60], Raised}

InitGuarded ==
    /\ trades = << >>
    /\ blacklist = {}
    /\ suggested = [t \in Tokens |-> 0]
    /\ wallet = [t \in Tokens |-> 0]
    /\ chain = << >>
    /\ observed = {}
    /\ notifications = [buy |-> 0, sell |-> 0]
    /\ buyer = [c \in Callers |-> IdleBuyer]
    /\ mpc = "sleep"
    /\ new_suggestions = << >>
    /\ trades_to_sell = << >>
    /\ now = StartHour
    /\ config \in {c \in Configs : c.auto_trading_enabled}
    /\ log = {}
    /\ ex = NoEval
    /\ trader = NoCall
    /\ analysis = NoAnalysis
    /\ scheduler = [pc |-> "loop", clock |-> 0, analysis_results |-> << >>,
                    rejected_tokens |-> << >>,
                    evaluated_at |-> [t \in 1..HotPoolsLimit |-> NULL],
                    shortest_gap |-> NULL, cycles |-> 0, tokens_analyzed |-> 0,
                    raised |-> {}, rejection_category |-> << >>]
    /\ loops = NoLoops
    /\ dextools = NoClients

\* an except branch that records the rejection without its category
analyze_token_guarded_uncategorised(st, token_address, outcome) ==
    LET done == analyze_token(st, token_address,
                              IF "raised" \in DOMAIN outcome THEN Rejection ELSE outcome)
    IN [done EXCEPT !.raised = IF "raised" \in DOMAIN outcome
                               THEN @ \cup {token_address} ELSE @,
                    !.rejection_category =
                        IF outcome.approved THEN @ ELSE Append(@, "unknown")]

\* _analyze_token with its except branch: an evaluation that raises ends in
\* _reject_token(..., "exception"); rejection_category lists the categories
\* passed to _reject_token, one per entry appended to rejected_tokens
analyze_token_guarded(st, token_address, outcome) ==
    LET done == analyze_token(st, token_address,
                              IF "raised" \in DOMAIN outcome THEN Rejection ELSE outcome)
    IN [done EXCEPT !.raised = IF "raised" \in DOMAIN outcome
                               THEN @ \cup {token_address} ELSE @,
                    !.rejection_category =
                        IF outcome.approved THEN @
                        ELSE Append(@, IF "raised" \in DOMAIN outcome
                                       THEN "exception" ELSE "final_evaluation")]

\* the for loop of _analyze_next_token from pool i on; outcomes[k] is how the
\* k-th evaluation of the cycle ends
RECURSIVE GuardedPools(_, _, _, _)
GuardedPools(st, i, tokens_analyzed, outcomes) ==
    IF i > Len(HotPools) \/ tokens_analyzed >= MaxPerCycle
    THEN [st EXCEPT !.tokens_analyzed = tokens_analyzed]
    ELSE IF was_recently_analyzed(st, HotPools[i])
    THEN GuardedPools(st, i + 1, tokens_analyzed, outcomes)
    ELSE GuardedPools(analyze_token_guarded(st, HotPools[i],
                                            outcomes[tokens_analyzed + 1]),
                      i + 1, tokens_analyzed + 1, outcomes)

\* one pass of _analysis_loop in which evaluations may raise
GuardedCycle(outcomes) ==
    /\ scheduler.pc = "loop"
    /\ scheduler.cycles < MaxGuardedCycles
    /\ LET st == GuardedPools(scheduler, 1, 0, outcomes)
       IN scheduler' = [st EXCEPT !.clock = @ + CycleSleepSeconds, !.cycles = @ + 1]
    /\ UNCHANGED <<trades, blacklist, suggested, wallet, chain, observed, notifications,
                   buyer, mpc, new_suggestions, trades_to_sell, now, config, log, ex,
                   trader, analysis, loops, dextools>>

NextGuarded ==
    \E outcomes \in [1..MaxPerCycle -> GuardedOutcomes] : GuardedCycle(outcomes)

SpecGuarded == InitGuarded /\ [][NextGuarded]_vars

\* C33: an evaluation that raises is recorded as a rejection of its candidate
\* with category exception, and the cycle goes on to its MaxPerCycle evaluations
C33_ExceptionIsRejection ==
    scheduler.cycles > 0 =>
        /\ scheduler.tokens_analyzed = MaxPerCycle
        /\ Len(scheduler.rejection_category) = Len(scheduler.rejected_tokens)
        /\ \A t \in scheduler.raised :
              \E k \in 1..Len(scheduler.rejected_tokens) :
                 /\ scheduler.rejected_tokens[k].token_address = t
                 /\ scheduler.rejection_category[k] = "exception"
        /\ \A k \in 1..Len(scheduler.rejected_tokens) :
              scheduler.rejection_category[k] = "exception"
                  => scheduler.rejected_tokens[k].token_address \in scheduler.raised

\* the second evaluation of the cycle raised and three more candidates were
\* evaluated after it, one of them approved
C33_Witness ==
    /\ scheduler.cycles > 0
    /\ scheduler.raised = {HotPools[2]}
    /\ scheduler.tokens_analyzed = MaxPerCycle
    /\ Len(scheduler.analysis_results) > 0
    /\ scheduler.analysis_results[1].token_address = HotPools[5]

\* ---------------------------------------------------------------------------
\* The two windows of TokenAnalyzer under approvals and rejections in any
\* order. The run starts after 19 rejections (tokens 1..19) followed by 9
\* approvals (tokens 20..28), one short of each limit; a token is named by its
\* arrival number, which is also its time.
MaxArrivals == 4
WindowScores == {60, 70, 80}
RejectedBefore == RejectedKept - 1
ApprovedBefore == ApprovedKept - 1

InitWindows ==
    /\ trades = << >>
    /\ blacklist = {}
    /\ suggested = [t \in Tokens |-> 0]
    /\ wallet = [t \in Tokens |-> 0]
    /\ chain = << >>
    /\ observed = {}
    /\ notifications = [buy |-> 0, sell |-> 0]
    /\ buyer = [c \in Callers |-> IdleBuyer]
    /\ mpc = "sleep"
    /\ new_suggestions = << >>
    /\ trades_to_sell = << >>
    /\ now = StartHour
    /\ config \in {c \in Configs : c.auto_trading_enabled}
    /\ log = {}
    /\ ex = NoEval
    /\ trader = NoCall
    /\ analysis = NoAnalysis
    /\ \E high \in 0..ApprovedBefore :
          scheduler =
              [pc |-> "windows", clock |-> RejectedBefore + ApprovedBefore + 1,
               arrivals |-> 0,
               rejected_tokens |-> [k \in 1..RejectedBefore |->
                                       [token_address |-> k, analyzed_at |-> k]],
               analysis_results |-> [k \in 1..ApprovedBefore |->
                                        [token_address |-> RejectedBefore + k,
                                         score |-> IF k <= high THEN 70 ELSE 60,
                                         analyzed_at |-> RejectedBefore + k]],
               rejections |-> [k \in 1..RejectedBefore |-> k],
               approvals |-> ApprovedBefore]
    /\ loops = NoLoops
    /\ dextools = NoClients

OtherThanScheduler == <<trades, blacklist, suggested, wallet, chain, observed,
                        notifications, buyer, mpc, new_suggestions, trades_to_sell, now,
                        config, log, ex, trader, analysis, loops, dextools>>

\* _approve_token for the token that arrives now
ApproveArrival(score) ==
    /\ scheduler.pc = "windows"
    /\ scheduler.arrivals < MaxArrivals
    /\ scheduler' = [approve_token(scheduler, scheduler.clock, score) EXCEPT
                        !.clock = @ + 1, !.arrivals = @ + 1, !.approvals = @ + 1]
    /\ UNCHANGED OtherThanScheduler

\* _reject_token for the token that arrives now; rejections lists every token
\* ever rejected, in arrival order
RejectArrival ==
    /\ scheduler.pc = "windows"
    /\ scheduler.arrivals < MaxArrivals
    /\ scheduler' = [reject_token(scheduler, scheduler.clock) EXCEPT
                        !.clock = @ + 1, !.arrivals = @ + 1,
                        !.rejections = Append(@, scheduler.clock)]
    /\ UNCHANGED OtherThanScheduler

NextWindows ==
    \/ \E score \in WindowScores : ApproveArrival(score)
    \/ RejectArrival

SpecWindows == InitWindows /\ [][NextWindows]_vars

\* C34: the approved window holds at most 10 outcomes in descending order of
\* score; the rejected window holds at most 20 outcomes, the most recent
\* rejections in arrival order
C34_Windows ==
    LET a == scheduler.analysis_results
        r == scheduler.rejected_tokens
        all == scheduler.rejections
        n == Len(all)
    IN /\ Len(a) <= ApprovedKept
       /\ \A i, j \in 1..Len(a) : i < j => a[i].score >= a[j].score
       /\ Len(r) <= RejectedKept
       /\ Len(r) = IF n < RejectedKept THEN n ELSE RejectedKept
       /\ \A k \in 1..Len(r) : r[k].token_address = all[n - Len(r) + k]

\* both windows are full and each has dropped an outcome
C34_Witness ==
    /\ scheduler.approvals > ApprovedKept
    /\ Len(scheduler.analysis_results) = ApprovedKept
    /\ Len(scheduler.rejections) > RejectedKept
    /\ Len(scheduler.rejected_tokens) = RejectedKept

\* ---------------------------------------------------------------------------
\* C35: the profit_loss_percentage that execute_sell records is the percentage
\* change from the recorded buy_price to the sell price, whatever quantity was
\* sold
C35_PctIsPriceChange ==
    \A i \in TradeIds :
        (trades[i].status = "CLOSED" /\ trades[i].sell_transaction_hash > 0) =>
            trades[i].profit_loss_percentage
                = StoredPct((trades[i].sell_price - trades[i].buy_price) * 100,
                            trades[i].buy_price)

\* ---------------------------------------------------------------------------
\* The amount conversions of one position: raw to UI in buy_token, UI to raw
\* in _get_sell_quote. An amount is the decimal number m * 10^e, kept with m
\* free of trailing zeros, so that equal numbers are equal records.
RawAmounts == {1, 7, 25, 31, 999, 1500, 123456, 200000, 1234567, 5000000, 150000000,
               2000000001}
\* what api.solana.fm answers for the token's decimals; NULL: no answer
ApiDecimals == TokenDecimals \cup {NULL}

RECURSIVE Pow10(_)
Pow10(n) == IF n <= 0 THEN 1 ELSE 10 * Pow10(n - 1)

RECURSIVE Normalize(_)
Normalize(a) ==
    IF a.m # 0 /\ a.m % 10 = 0 THEN Normalize([m |-> a.m \div 10, e |-> a.e + 1])
    ELSE a

\* _get_token_decimals: the API's answer, 9 when the request fails
get_token_decimals(answer) == IF answer = NULL THEN DefaultDecimals ELSE answer

\* out_amount / 10 ** decimals
raw_to_ui(raw, decimals) == Normalize([m |-> raw.m, e |-> raw.e - decimals])

\* int(amount * (10 ** decimals))
ui_to_raw(amount, decimals) ==
    LET e == amount.e + decimals
    IN IF e >= 0 THEN Normalize([m |-> amount.m, e |-> e])
       ELSE Normalize([m |-> amount.m \div Pow10(0 - e), e |-> 0])

\* the conversion of buy_token: when fewer than 10 tokens come out and three
\* decimals less give more than 100, three decimals less are used
buy_conversion(out_amount, decimals) ==
    LET fewer_than_10 == decimals >= 9 \/ out_amount < Pow10(decimals + 1)
        adjusted_over_100 == out_amount > Pow10(decimals - 1)
        used == IF fewer_than_10 /\ adjusted_over_100 THEN decimals - 3 ELSE decimals
    IN [tokens_bought |-> raw_to_ui([m |-> out_amount, e |-> 0], used),
        decimals |-> used]

InitDecimals ==
    /\ trades = << >>
    /\ blacklist = {}
    /\ suggested = [t \in Tokens |-> 0]
    /\ wallet = [t \in Tokens |-> 0]
    /\ chain = << >>
    /\ observed = {}
    /\ notifications = [buy |-> 0, sell |-> 0]
    /\ buyer = [c \in Callers |-> IdleBuyer]
    /\ mpc = "sleep"
    /\ new_suggestions = << >>
    /\ trades_to_sell = << >>
    /\ now = StartHour
    /\ config \in {c \in Configs : c.auto_trading_enabled}
    /\ log = {}
    /\ ex = NoEval
    /\ \E out_amount \in RawAmounts :
          trader = [pc |-> "quote", out_amount |-> out_amount, buy_decimals |-> NULL,
                    tokens_bought |-> NULL, token_decimals |-> NULL,
                    sell_decimals |-> NULL, amount_raw |-> NULL, back |-> NULL]
    /\ scheduler = NoScheduler /\ loops = NoLoops /\ dextools = NoClients
    /\ analysis = NoAnalysis

\* buy_token: the quote's outAmount becomes the UI amount tokens_bought
BuyQuote(answer) ==
    /\ trader.pc = "quote"
    /\ LET c == buy_conversion(trader.out_amount, get_token_decimals(answer))
       IN trader' = [trader EXCEPT !.pc = "bought", !.buy_decimals = c.decimals,
                                   !.tokens_bought = c.tokens_bought]
    /\ UNCHANGED OtherThanTrader

\* _record_buy_transaction: token_decimals of the row from a request of its own
RecordBuyDecimals(answer) ==
    /\ trader.pc = "bought"
    /\ trader' = [trader EXCEPT !.pc = "recorded",
                                !.token_decimals = get_token_decimals(answer)]
    /\ UNCHANGED OtherThanTrader

\* execute_sell and _get_sell_quote for the amount bought: the decimals are
\* trade.get('token_decimals', 9) of the row check_open_trades_for_sell
\* fetched; back is amount_raw converted as buy_token converted
SellQuote ==
    /\ trader.pc = "recorded"
    /\ LET row == Project(TradeRow(trader.token_decimals), SelectedColumns)
           decimals == Get(row, "token_decimals", DefaultDecimals)
           amount_raw == ui_to_raw(trader.tokens_bought, decimals)
       IN trader' = [trader EXCEPT !.pc = "sold", !.sell_decimals = decimals,
                                   !.amount_raw = amount_raw,
                                   !.back = raw_to_ui(amount_raw, trader.buy_decimals)]
    /\ UNCHANGED OtherThanTrader

NextDecimals ==
    \/ \E answer \in ApiDecimals : BuyQuote(answer)
    \/ \E answer \in ApiDecimals : RecordBuyDecimals(answer)
    \/ SellQuote

SpecDecimals == InitDecimals /\ [][NextDecimals]_vars

\* two amounts that differ by at most one in the last digit
WithinTolerance(a, b) ==
    \/ a = b
    \/ a.e = b.e /\ a.m - b.m \in {-1, 0, 1}

\* C36: the UI amount converted to a raw amount on the sell side and back is
\* the UI amount, also when the two sides obtained their decimals separately
C36_RoundTrip ==
    trader.pc = "sold" => WithinTolerance(trader.back, trader.tokens_bought)

\* ------------------------- check_open_trades_for_sell: one try around the loop
\* buy_price as the SELECT returns it from the NUMERIC column: 0 is a row whose
\* price lies below the scale of the column
StoredBuyPrices == {0, 10}
\* answers of _get_current_token_price: None (the lookup failed, caught inside
\* the helper), 8 (-20%), 10 (0%), 16 (+60%) against a buy_price of 10
AnsweredPrices == {NULL, 8, 10, 16}

InitSellCheck ==
    /\ now = StartHour
    /\ \E p1, p2 \in StoredBuyPrices :
          trades = << NewTrade("T1", p1, Lot, 1, NULL), NewTrade("T2", p2, Lot, 2, NULL) >>
    /\ blacklist = {}
    /\ suggested = [t \in Tokens |-> 0]
    /\ wallet = [t \in Tokens |-> Lot]
    /\ chain = << >>
    /\ observed = {}
    /\ notifications = [buy |-> 0, sell |-> 0]
    /\ buyer = [c \in Callers |-> IdleBuyer]
    /\ mpc = "buying"
    /\ new_suggestions = << >>
    /\ trades_to_sell = << >>
    /\ config \in {c \in Configs : c.auto_trading_enabled}
    /\ log = {}
    /\ ex = NoEval
    /\ trader = NoCall
    /\ scheduler = NoScheduler /\ loops = NoLoops
    /\ dextools = [prices |-> [i \in {} |-> NULL], raised |-> FALSE]
    /\ analysis = NoAnalysis

\* ((current_price - buy_price) / buy_price) * 100 raises ZeroDivisionError: in
\* both branches of the loop the division runs only for a truthy current_price
PriceChangeRaises(buy_price, price) == Truthy(price) /\ buy_price = 0

\* check_open_trades_for_sell with its try: the loop appends the trades that meet
\* an exit condition; an exception in the body for any trade leaves the loop and
\* the handler returns the empty list
CheckOpenTradesForSell(prices) ==
    /\ mpc = "buying"
    /\ LET Eval(i) == EvaluateExit(now - trades[i].buy_time, trades[i].buy_price,
                                   prices[i], config)
           ToSell(i) == i \in OpenIds /\ Eval(i).reason # "None"
           picked == SelectSeq([i \in 1..Len(trades) |-> i], ToSell)
           raised == \E i \in OpenIds :
                        PriceChangeRaises(trades[i].buy_price, prices[i])
           returned == IF raised THEN << >>
                       ELSE [k \in 1..Len(picked) |->
                               [id |-> picked[k],
                                token_address |-> trades[picked[k]].token_address,
                                buy_price |-> trades[picked[k]].buy_price,
                                buy_amount |-> trades[picked[k]].buy_amount,
                                current_price |-> Eval(picked[k]).current_price,
                                sell_reason |-> Eval(picked[k]).reason]]
       IN /\ trades_to_sell' = returned
          /\ mpc' = IF returned = << >> THEN "sleep" ELSE "selling"
          /\ dextools' = [prices |-> prices, raised |-> raised]
          /\ log' = IF raised THEN log \cup {"check_trades_error"} ELSE log
    /\ UNCHANGED <<trades, blacklist, suggested, wallet, chain, observed, notifications,
                   buyer, new_suggestions, now, config, ex, trader, analysis,
                   scheduler, loops>>

\* _monitor_loop between two sell checks: the list is local to the cycle; the
\* positions are older at the next one
SellCheckCycleEnds(dt) ==
    /\ mpc \in {"sleep", "selling"}
    /\ now + dt <= MaxNow
    /\ mpc' = "buying"
    /\ trades_to_sell' = << >>
    /\ now' = now + dt
    /\ UNCHANGED <<trades, blacklist, suggested, wallet, chain, observed, notifications,
                   buyer, new_suggestions, config, log, ex, trader, analysis,
                   scheduler, loops, dextools>>

NextSellCheck ==
    \/ \E prices \in [OpenIds -> AnsweredPrices] : CheckOpenTradesForSell(prices)
    \/ \E dt \in TickHours : SellCheckCycleEnds(dt)

SpecSellCheck == InitSellCheck /\ [][NextSellCheck]_vars

\* C37: within one sell check, a failure while evaluating one OPEN trade does not
\* keep the other OPEN trades that meet an exit condition in the same cycle from
\* being returned for sale
C37_FailureIsolated ==
    mpc # "buying" =>
        \A i \in OpenIds :
            (/\ ~PriceChangeRaises(trades[i].buy_price, dextools.prices[i])
             /\ EvaluateExit(now - trades[i].buy_time, trades[i].buy_price,
                             dextools.prices[i], config).reason # "None")
                => \E k \in DOMAIN trades_to_sell : trades_to_sell[k].id = i

\* a failed price lookup alone (None from _get_current_token_price) loses no
\* other trade: the helper catches its own exception
LookupFailureIsolated ==
    (mpc # "buying" /\ ~dextools.raised) =>
        \A i \in OpenIds :
            EvaluateExit(now - trades[i].buy_time, trades[i].buy_price,
                         dextools.prices[i], config).reason # "None"
                => \E k \in DOMAIN trades_to_sell : trades_to_sell[k].id = i

\* ------------------------------ sell_tokens and the transactions it has sent
\* what confirm_transaction yields for a transaction that was sent: a value
\* without err, a value with err (the transaction ran and failed), or no value
\* or an exception (the hash is not returned; the transaction is still in flight)
ConfirmOutcomes == {"confirmed", "err", "unobserved"}

InitInFlight ==
    /\ trades = << >>
    /\ blacklist = {}
    /\ suggested = [t \in Tokens |-> 0]
    /\ wallet = [t \in Tokens |-> Lot]
    /\ chain = << >>
    /\ observed = {}
    /\ notifications = [buy |-> 0, sell |-> 0]
    /\ buyer = [c \in Callers |-> IdleBuyer]
    /\ mpc = "selling"
    /\ new_suggestions = << >>
    /\ trades_to_sell = << >>
    /\ now = StartHour
    /\ config \in {c \in Configs : c.auto_trading_enabled}
    /\ log = {}
    /\ ex = NoEval
    /\ \E t \in Tokens :
          trader = [pc |-> "attempt", strategy |-> 1, token |-> t,
                    amount |-> (Lot * SellNum) \div SellDen, result |-> NULL]
    /\ scheduler = NoScheduler /\ loops = NoLoops /\ dextools = NoClients
    /\ analysis = NoAnalysis

InFlight == {s \in DOMAIN chain : chain[s].status = "pending"}

\* one strategy of sell_tokens up to the return of _sign_and_send_sell_transaction:
\* the simulation runs against the wallet as it stands (sim_ok: nothing else makes
\* it fail), the transaction is sent with skip_preflight=True and its
\* confirmation is awaited; sell_tokens goes on to the next strategy on None
SendAndConfirm(sim_ok, confirmation) ==
    /\ trader.pc = "attempt"
    /\ LET k == trader.strategy
           t == trader.token
           amount == IF k = 3 THEN (trader.amount * ReducedNum) \div ReducedDen
                     ELSE trader.amount
           sent == sim_ok /\ wallet[t] >= amount
           sig == Len(chain) + 1
           result == IF sent /\ confirmation = "confirmed" THEN sig ELSE NULL
           next == sell_tokens_next(k, result)
       IN /\ chain' = IF sent
                      THEN Append(chain,
                             [kind |-> "sell", token |-> t, strategy |-> k,
                              amount |-> amount,
                              status |-> CASE confirmation = "confirmed" -> "landed"
                                           [] confirmation = "err" -> "failed"
                                           [] OTHER -> "pending",
                              sent_with_in_flight |-> InFlight # {}])
                      ELSE chain
          /\ wallet' = IF result # NULL THEN [wallet EXCEPT ![t] = @ - amount]
                       ELSE wallet
          /\ trader' = [trader EXCEPT !.result = result, !.pc = next.pc,
                                      !.strategy = next.strategy]
    /\ UNCHANGED <<trades, blacklist, suggested, observed, notifications, buyer, mpc,
                   new_suggestions, trades_to_sell, now, config, log, ex, analysis,
                   scheduler, loops, dextools>>

\* the cluster executes a transaction in flight: the swap takes effect when the
\* token account still holds the amount, and fails otherwise
Lands(sig) ==
    /\ sig \in InFlight
    /\ LET tx == chain[sig]
           funded == wallet[tx.token] >= tx.amount
       IN /\ chain' = [chain EXCEPT ![sig].status = IF funded THEN "landed" ELSE "failed"]
          /\ wallet' = IF funded THEN [wallet EXCEPT ![tx.token] = @ - tx.amount]
                       ELSE wallet
    /\ UNCHANGED <<trades, blacklist, suggested, observed, notifications, buyer, mpc,
                   new_suggestions, trades_to_sell, now, config, log, ex, trader,
                   analysis, scheduler, loops, dextools>>

\* the blockhash of a transaction in flight expires: it can no longer land
Expires(sig) ==
    /\ sig \in InFlight
    /\ chain' = [chain EXCEPT ![sig].status = "expired"]
    /\ UNCHANGED <<trades, blacklist, suggested, wallet, observed, notifications, buyer,
                   mpc, new_suggestions, trades_to_sell, now, config, log, ex, trader,
                   analysis, scheduler, loops, dextools>>

NextInFlight ==
    \/ \E sim_ok \in BOOLEAN, confirmation \in ConfirmOutcomes :
          SendAndConfirm(sim_ok, confirmation)
    \/ \E sig \in DOMAIN chain : Lands(sig)
    \/ \E sig \in DOMAIN chain : Expires(sig)

SpecInFlight == InitInFlight /\ [][NextInFlight]_vars

\* C38: within one sell_tokens invocation at most one submitted sell transaction
\* takes effect, and no fallback strategy is submitted while a transaction of an
\* earlier strategy whose confirmation was not observed can still land
C38_OneSellInFlight ==
    /\ Cardinality({s \in DOMAIN chain : chain[s].status = "landed"}) <= 1
    /\ \A s \in DOMAIN chain : ~chain[s].sent_with_in_flight

\* of the transactions of one invocation at most one takes effect: each asks for
\* at least 94% of the balance
AtMostOneLands ==
    Cardinality({s \in DOMAIN chain : chain[s].status = "landed"}) <= 1

\* every strategy failed for sell_tokens, which returned None, and a transaction
\* it had sent has taken effect
SoldButNoneReturned ==
    /\ trader.pc = "done"
    /\ trader.result = NULL
    /\ \E s \in DOMAIN chain : chain[s].status = "landed"

\* ---------------------------------------------- execute_buy and its record
\* execute_buy has ended for the swap with signature sig
BuyEnded(sig) == \A c \in Callers : ~(buyer[c].pc = "swapped" /\ buyer[c].hash = sig)

\* C39: every buy swap that was submitted and took effect on-chain has a trade
\* of that token in the store once execute_buy has ended
C39_BoughtIsRecorded ==
    \A sig \in DOMAIN chain :
        (chain[sig].kind = "buy" /\ chain[sig].status = "confirmed" /\ BuyEnded(sig)) =>
            \E i \in TradeIds : /\ trades[i].token_address = chain[sig].token
                                /\ trades[i].buy_transaction_hash = sig

\* the INSERT of _record_buy_transaction went through for a swap that landed
BoughtAndRecorded ==
    \E sig \in DOMAIN chain :
        /\ chain[sig].kind = "buy" /\ chain[sig].status = "confirmed" /\ BuyEnded(sig)
        /\ \E i \in TradeIds : /\ trades[i].token_address = chain[sig].token
                               /\ trades[i].buy_transaction_hash = sig

\* ---------------------------------------------------------------------------
\* start and stop of a background loop. loops is one instance (a TokenAnalyzer
\* or a TradeMonitor): its flag, the threads it has created (the last one is the
\* handle analysis_thread / monitor_thread) and the caller of start and stop,
\* who waits in join. Time is in seconds; left is what remains of a cycle, of a
\* time.sleep call or of the join.
MaxThreads == 2
JoinTimeoutSeconds == 5
\* how long a cycle takes: _analyze_next_token and the monitor's checks wait for
\* HTTP answers and for the rate limit of each request
CycleDurations == {1, 7}

NewThread == [pc |-> "test", left |-> 0, naps |-> 0]

InitThreads ==
    /\ trades = << >>
    /\ blacklist = {}
    /\ suggested = [t \in Tokens |-> 0]
    /\ wallet = [t \in Tokens |-> 0]
    /\ chain = << >>
    /\ observed = {}
    /\ notifications = [buy |-> 0, sell |-> 0]
    /\ buyer = [c \in Callers |-> IdleBuyer]
    /\ mpc = "sleep"
    /\ new_suggestions = << >>
    /\ trades_to_sell = << >>
    /\ now = StartHour
    /\ config \in {c \in Configs : c.auto_trading_enabled}
    /\ log = {}
    /\ ex = NoEval
    /\ trader = NoCall
    /\ analysis = NoAnalysis
    /\ scheduler = NoScheduler
    /\ \E L \in Loops :
          loops = [name |-> L, running |-> FALSE, threads |-> << >>,
                   caller |-> [pc |-> "idle", left |-> 0]]
    /\ dextools = NoClients

Alive == {i \in DOMAIN loops.threads : loops.threads[i].pc # "exited"}

\* start_background_analysis / TradeMonitor.start: nothing when the flag is set;
\* otherwise the flag is set and a new thread is created and started
StartLoop ==
    /\ loops.caller.pc = "idle"
    /\ IF loops.running
       THEN UNCHANGED loops
       ELSE /\ Len(loops.threads) < MaxThreads
            /\ loops' = [loops EXCEPT !.running = TRUE,
                                      !.threads = Append(@, NewThread)]
    /\ UNCHANGED OtherThanLoops

\* stop_background_analysis / TradeMonitor.stop: the flag is cleared and the
\* caller joins the thread of the handle for at most JoinTimeoutSeconds
StopThread ==
    /\ loops.caller.pc = "idle"
    /\ loops' = [loops EXCEPT
                    !.running = FALSE,
                    !.caller = IF loops.threads # << >>
                                  /\ loops.threads[Len(loops.threads)].pc # "exited"
                               THEN [pc |-> "join", left |-> JoinTimeoutSeconds]
                               ELSE @]
    /\ UNCHANGED OtherThanLoops

\* join returns: the thread has ended, or the timeout has passed
JoinReturns ==
    /\ loops.caller.pc = "join"
    /\ \/ loops.threads[Len(loops.threads)].pc = "exited"
       \/ loops.caller.left = 0
    /\ loops' = [loops EXCEPT !.caller = [pc |-> "idle", left |-> 0]]
    /\ UNCHANGED OtherThanLoops

\* the test of the while loop of thread i, and the start of a cycle
TestFlag(i, duration) ==
    /\ i \in DOMAIN loops.threads
    /\ loops.threads[i].pc = "test"
    /\ loops' = [loops EXCEPT !.threads[i] =
                    IF loops.running THEN [@ EXCEPT !.pc = "cycle", !.left = duration]
                    ELSE [@ EXCEPT !.pc = "exited"]]
    /\ UNCHANGED OtherThanLoops

\* the cycle of thread i ends: the flag is read before the first time.sleep call
CycleOver(i) ==
    /\ i \in DOMAIN loops.threads
    /\ loops.threads[i].pc = "cycle"
    /\ loops.threads[i].left = 0
    /\ loops' = [loops EXCEPT !.threads[i] =
                    IF ~loops.running THEN [@ EXCEPT !.pc = "test"]
                    ELSE IF loops.name = "analyzer"
                    THEN [@ EXCEPT !.pc = "sleep", !.left = NapSeconds,
                                   !.naps = CycleSleepSeconds - 1]
                    ELSE [@ EXCEPT !.pc = "sleep", !.left = MonitoringIntervalSeconds]]
    /\ UNCHANGED OtherThanLoops

\* a time.sleep call of thread i returns
SleepOver(i) ==
    /\ i \in DOMAIN loops.threads
    /\ loops.threads[i].pc = "sleep"
    /\ loops.threads[i].left = 0
    /\ loops' = [loops EXCEPT !.threads[i] =
                    IF loops.name = "analyzer" /\ @.naps > 0 /\ loops.running
                    THEN [@ EXCEPT !.left = NapSeconds, !.naps = @ - 1]
                    ELSE [@ EXCEPT !.pc = "test", !.naps = 0]]
    /\ UNCHANGED OtherThanLoops

\* one second passes; what is due happens before the next second
SecondPasses ==
    /\ loops.caller.pc = "join" => loops.caller.left > 0
    /\ \A i \in DOMAIN loops.threads :
          /\ loops.threads[i].pc # "test"
          /\ loops.threads[i].pc \in {"cycle", "sleep"} => loops.threads[i].left > 0
    /\ Alive # {}
    /\ loops' = [loops EXCEPT
                    !.caller.left = IF @ > 0 THEN @ - 1 ELSE @,
                    !.threads = [i \in DOMAIN @ |->
                                    [@[i] EXCEPT !.left = IF @ > 0 THEN @ - 1 ELSE @]]]
    /\ UNCHANGED OtherThanLoops

NextThreads ==
    \/ StartLoop
    \/ StopThread
    \/ JoinReturns
    \/ \E i \in 1..MaxThreads, duration \in CycleDurations : TestFlag(i, duration)
    \/ \E i \in 1..MaxThreads : CycleOver(i)
    \/ \E i \in 1..MaxThreads : SleepOver(i)
    \/ SecondPasses

SpecThreads == InitThreads /\ [][NextThreads]_vars

\* C40: at most one thread executes a background loop of an instance at any
\* time, over any sequence of start and stop calls
C40_OneThreadPerLoop == Cardinality(Alive) <= 1

\* two threads of one instance are inside a cycle at the same time
TwoThreadsInCycle ==
    Cardinality({i \in DOMAIN loops.threads : loops.threads[i].pc = "cycle"}) >= 2


==============================================================================
